---- MODULE Spec2Model ----
(***************************************************************************)
(* Coordination core of the screen-share assistant: the voice-activity     *)
(* gated audio segmenter (audio/audio_manager.py with its collaborators    *)
(* audio/vad_detector.py and audio/speech_to_text.py) and the change-gated *)
(* capture pipeline (core/orchestrator.py, capture/screen_capturer.py,     *)
(* capture/frame_buffer.py).                                               *)
(*                                                                         *)
(* All pipeline code runs on one asyncio event loop: a coroutine runs      *)
(* without interruption from one await that really suspends to the next.   *)
(* Each action below is one such uninterrupted stretch.                    *)
(*                                                                         *)
(* Time is counted in half seconds since the session started.              *)
(* Texts are sequences of one-character strings.                           *)
(***************************************************************************)
EXTENDS Integers, Sequences, FiniteSets, TLC

VARIABLES
    \* ---- AudioManager fields (audio/audio_manager.py:22-35) ----
    is_listening,
    audio_buffer,
    silence_counter,
    on_transcription_callback,
    _processing_buffer,
    _last_transcription,
    _last_transcription_time,
    _is_speaking,
    \* ---- coroutines suspended inside the AudioManager ----
    tasks,          \* the _process_buffered_audio calls suspended at an await
    synth_pc,       \* position of the synthesize_and_play call
    \* ---- environment ----
    now,            \* time.time()
    \* ---- history variables (observers, never read by the program) ----
    g_last,         \* what became of the chunk delivered by the last step
    g_heard,        \* speech chunks classified since the last flush or clear
    g_run,          \* silence chunks classified since the last speech chunk
    g_due,          \* the last step made g_run reach the threshold
    flush_result,   \* decision taken by the most recently decided flush
    g_latest,       \* the most recent accepted transcript and its time
    g_accepted_at,  \* for each valid text, when it was last accepted
    g_scenario,     \* progress of the accept / suppress / accept scenario
    g_synth,        \* what the synthesize_and_play call under way has done
    \* ---- ScreenCapturer (capture/screen_capturer.py:25-28) ----
    region,
    last_frame,
    \* ---- FrameBuffer (capture/frame_buffer.py:31-33) ----
    frames,
    current_frame_number,
    \* ---- StateManager (core/state_manager.py:17-18) ----
    current_screen,
    screen_changed,
    \* ---- the capture loop and the 'screen_changed' handler ----
    cap_pc,             \* position of _screen_capture_loop
    q_screen_changed,   \* the queue of _handle_screen_changes
    \* ---- history variables of the capture pipeline ----
    g_reference,    \* the frame last accepted as changed
    g_cap,          \* what the last capture attempt compared and did
    g_added,        \* every frame given to add_frame so far, in call order
    g_cleared,      \* how many frames had been added at the last clear_buffer
    cap_wake_at,    \* when the sleep of the capture loop is due to end
    g_attempt_at,   \* when the last capture attempt started
    g_gap,          \* time from the attempt before it to the last attempt
    \* ---- EventBus (core/event_bus.py:26-27) and the queues it made ----
    _subscribers,   \* event type -> list of queues, for the types ever seen
    queues,         \* queue -> the events waiting in it
    _event_count,
    \* ---- history variables of the event bus ----
    g_published,        \* the types of the publish calls made, in order
    g_last_taken,       \* queue -> the data of the event last taken from it
    g_asked,            \* the (queue, type) pairs ever given to subscribe
    g_registered,       \* the pairs subscribed and not unsubscribed since
    g_created_at,       \* queue -> publish calls made before it was created
    \* ---- MacOSOverlay (overlay/macos_overlay.py:46) and its sweep ----
    annotations,        \* the annotations drawn at each repaint
    \* ---- AnnotationManager (overlay/annotation_manager.py:20) ----
    active_annotations, \* the manager's own list of annotations
    sweep_wake_at,      \* when the sleep of _cleanup_loop is due to end
    \* ---- history variables of the overlay ----
    g_shown,            \* the annotations added and not cleared since
    g_annotated,        \* how many annotations have been added so far
    _cleanup_task,      \* AnnotationManager._cleanup_task: the sweep's task
    \* ---- Orchestrator (core/orchestrator.py:44-45) and its handlers ----
    _running,
    stop_pc,            \* position of the stop() call
    h_user_pc,          \* position of _handle_user_speech
    h_ai_pc,            \* position of _handle_ai_responses
    h_screen_pc,        \* position of _handle_screen_changes
    q_user_spoke,       \* the queue of _handle_user_speech
    q_ai_response,      \* the queue of _handle_ai_responses
    \* ---- ContextManager and StateManager fields the handlers use ----
    messages,
    processing_query,
    last_transcription,
    \* ---- history variables of the session ----
    h_user_job,         \* what analyze_frame was last called with
    g_utter,            \* utterance -> what has become of it
    g_released,         \* what stop() has stopped or released, in order
    \* ---- Orchestrator.start and the components it acquires ----
    start_pc,           \* position of the start() call
    attempt,            \* the turn of _wait_for_screen_share's loop
    meet_controller,    \* None, or the state of the call session it holds
    audio_capture,      \* None, or the state of the AudioCapture
    \* ---- AudioCapture (audio/audio_capture.py:21-22) ----
    audio,              \* None, or the PyAudio instance it holds
    stream,             \* None, or the input stream it holds
    \* ---- the event loop ----
    ready,              \* the tasks and calls ready to run, oldest first
    qt_integration,     \* None, or the state of the overlay's Qt thread
    g_start,            \* what failed during start(), and how start() ended
    \* ---- StateManager (core/state_manager.py:14, 32-33) and its callers --
    is_in_meeting,
    screen_share_active,
    _lock,              \* whether StateManager._lock is held
    st_call,            \* caller -> the StateManager call it is inside
    g_committed,        \* the fields as the last completed write left them
    g_read,             \* what the last completed read returned
    \* ---- the bridge from the audio thread to the event loop ----
    run_queue,          \* the _process_chunk calls scheduled on the loop
    g_produced,         \* how many chunks the audio callback has been given
    g_handed,           \* the chunks the callback handed over, in order
    g_begun,            \* the chunks process_audio_chunk has begun, in order
    \* ---- direct calls of detect_significant_change ----
    detected            \* the last call: its arguments and its result

audio_vars == <<is_listening, audio_buffer, silence_counter,
                on_transcription_callback, _processing_buffer,
                _last_transcription, _last_transcription_time, _is_speaking,
                tasks, synth_pc, now>>
ghost_vars == <<g_last, g_heard, g_run, g_due, flush_result, g_latest,
                g_accepted_at, g_scenario, g_synth>>
cap_vars == <<region, last_frame, frames, current_frame_number,
              current_screen, screen_changed, cap_pc, q_screen_changed,
              g_reference, g_cap, g_added, g_cleared,
              cap_wake_at, g_attempt_at, g_gap>>
cap_time_vars == <<cap_wake_at, g_attempt_at, g_gap>>
bus_vars == <<_subscribers, queues, _event_count, g_published, g_last_taken,
              g_asked, g_registered, g_created_at>>
overlay_vars == <<annotations, active_annotations, sweep_wake_at, g_shown,
                  g_annotated, _cleanup_task>>
orch_vars == <<_running, stop_pc, h_user_pc, h_ai_pc, h_screen_pc,
               q_user_spoke, q_ai_response, messages, processing_query,
               last_transcription, h_user_job, g_utter, g_released>>
mic_vars == <<audio, stream>>
start_vars == <<start_pc, attempt, meet_controller, audio_capture,
                qt_integration, g_start, mic_vars, ready>>
meeting_vars == <<is_in_meeting, screen_share_active>>
state_vars == <<meeting_vars, _lock, st_call, g_committed, g_read>>
bridge_vars == <<run_queue, g_produced, g_handed, g_begun>>
side_vars == <<state_vars, bridge_vars, detected>>
vars == <<audio_vars, ghost_vars, cap_vars, bus_vars, overlay_vars, orch_vars,
          start_vars, side_vars>>

\* what the actions of one component leave alone
non_audio_vars == <<cap_vars, bus_vars, overlay_vars, orch_vars, start_vars,
                    side_vars>>
non_cap_vars == <<audio_vars, ghost_vars, bus_vars, overlay_vars, orch_vars,
                  start_vars, side_vars>>
non_bus_vars == <<audio_vars, ghost_vars, cap_vars, overlay_vars, orch_vars,
                  start_vars, side_vars>>
\* the overlay reads the clock, which belongs to audio_vars
non_overlay_vars == <<audio_vars, ghost_vars, cap_vars, bus_vars, orch_vars,
                      start_vars, side_vars>>

None == "None"

(***************************************************************************)
(* Bounds of the model.                                                    *)
(***************************************************************************)
MaxBuf == 3         \* speech chunks accumulated before a flush
MaxTime == 7        \* last clock value (half seconds)
MaxFrames == 3      \* frames added to the frame buffer
MaxQueue == 2       \* events waiting in a handler queue
MaxPublish == 3     \* publish calls made directly on the event bus
MaxUtterances == 2  \* utterances published in a session
MaxAnnotations == 2 \* annotations added to the overlay
MaxAdds == 7        \* add_frame calls made directly on the frame buffer

(***************************************************************************)
(* Configuration (config.py).                                              *)
(***************************************************************************)
sample_rate == 16000
chunk_size == 1024
channels == 1
silence_duration_tenths == 5        \* silence_duration = 0.5 s

\* the quotient rounded up to the next whole number of chunks
silence_threshold_rounded_up ==
    (silence_duration_tenths * sample_rate + 10 * chunk_size - 1)
        \div (10 * chunk_size)

\* audio_manager.py:25  int(silence_duration * sample_rate / chunk_size)
silence_threshold ==
    (silence_duration_tenths * sample_rate) \div (10 * chunk_size)

\* audio_manager.py:34  3.0 seconds, in half seconds
_cooldown_period == 6


(***************************************************************************)
(* Audio chunks.  A chunk is [bytes, voiced, data]: its length in bytes,   *)
(* the verdict webrtcvad would give on it, and its content.                *)
(***************************************************************************)
ChunkLengths == {640, 2048}     \* 20 ms and 64 ms of 16-bit mono at 16 kHz

Sounds == {1, 2}                \* chunk contents

Chunks == [bytes : ChunkLengths, voiced : BOOLEAN, data : Sounds]

\* vad_detector.py:25-54  VADDetector.is_speech
is_speech(chunk) ==
    LET rate == IF sample_rate \in {8000, 16000, 32000, 48000}
                THEN sample_rate ELSE 16000
        \* frame_duration_ms = len / (rate * 2 / 1000) is one of 10, 20, 30
        valid_duration == \E d \in {10, 20, 30} :
                              chunk.bytes * 1000 = d * rate * 2
    IN  IF ~valid_duration THEN FALSE ELSE chunk.voiced

RECURSIVE JoinData(_)
JoinData(chunks) ==
    IF chunks = <<>> THEN <<>>
    ELSE <<Head(chunks).data>> \o JoinData(Tail(chunks))

RECURSIVE TotalBytes(_)
TotalBytes(chunks) ==
    IF chunks = <<>> THEN 0
    ELSE Head(chunks).bytes + TotalBytes(Tail(chunks))

\* audio_manager.py:130-151  AudioManager._chunks_to_wav
_chunks_to_wav(chunks) ==
    [nchannels |-> channels,
     sampwidth |-> 2,
     framerate |-> sample_rate,
     nframes   |-> TotalBytes(chunks) \div (2 * channels),
     frames    |-> JoinData(chunks)]

(***************************************************************************)
(* Transcripts.                                                            *)
(***************************************************************************)
UpperCase == <<"A","B","C","D","E","F","G","H","I","J","K","L","M",
               "N","O","P","Q","R","S","T","U","V","W","X","Y","Z">>
LowerCase == <<"a","b","c","d","e","f","g","h","i","j","k","l","m",
               "n","o","p","q","r","s","t","u","v","w","x","y","z">>

LowerChar(c) ==
    IF \E i \in 1..26 : UpperCase[i] = c
    THEN LowerCase[CHOOSE i \in 1..26 : UpperCase[i] = c]
    ELSE c

\* str.lower
Lower(text) == [i \in 1..Len(text) |-> LowerChar(text[i])]

Whitespace == {" "}

\* str.strip
RECURSIVE LStrip(_)
LStrip(text) ==
    IF text # <<>> /\ Head(text) \in Whitespace THEN LStrip(Tail(text))
    ELSE text

RECURSIVE RStrip(_)
RStrip(text) ==
    IF text # <<>> /\ text[Len(text)] \in Whitespace
    THEN RStrip(SubSeq(text, 1, Len(text) - 1))
    ELSE text

Strip(text) == RStrip(LStrip(text))

\* the Python test "sub in text"
Contains(sub, text) ==
    \E i \in 0..(Len(text) - Len(sub)) : SubSeq(text, i + 1, i + Len(sub)) = sub

\* speech_to_text.py:109  the known Whisper artifacts
artifacts ==
    << <<"[","B","L","A","N","K","_","A","U","D","I","O","]">>,
       <<"[","M","U","S","I","C","]">>,
       <<"[","N","O","I","S","E","]">>,
       <<"(","s","t","a","t","i","c",")">>,
       <<".",".",".">> >>

\* is_valid_transcription with a minimum length of 1
is_valid_transcription_short(text) ==
    IF text = <<>> THEN FALSE
    ELSE IF \E k \in 1..Len(artifacts) :
                Contains(Lower(artifacts[k]), Lower(text)) THEN FALSE
    ELSE IF Len(Strip(text)) < 1 THEN FALSE
    ELSE TRUE

\* speech_to_text.py:95-120  SpeechToText.is_valid_transcription
is_valid_transcription(text) ==
    IF text = <<>> THEN FALSE
    ELSE IF \E k \in 1..Len(artifacts) :
                Contains(Lower(artifacts[k]), Lower(text)) THEN FALSE
    ELSE IF Len(Strip(text)) < 2 THEN FALSE
    ELSE TRUE

\* A response of the Whisper call: [ok, text]; ok is FALSE when the call
\* timed out or raised.
Response(text) == [ok |-> TRUE, text |-> text]
APIError == [ok |-> FALSE, text |-> <<>>]

\* speech_to_text.py:24-75  SpeechToText.transcribe: the stripped text of
\* the response, and "" when the call raised
transcribe(response) ==
    IF ~response.ok THEN <<>> ELSE Strip(response.text)

\* the value None of _last_transcription, which equals no text
NoText == <<"<None>">>

T_go       == <<"g","o">>
T_no       == <<"n","o">>
T_padded   == <<" ","g","o"," ">>
T_single   == <<"a"," ">>
T_blank    == <<" ">>
T_music    == <<"[","m","u","s","i","c","]"," ","g","o">>
T_dots     == <<"G","o",".",".",".">>


(***************************************************************************)
(* Initial state: AudioManager.__init__ (audio_manager.py:16-37).          *)
(***************************************************************************)
NoResult == [outcome |-> "none", ok |-> TRUE, text |-> NoText, time |-> 0,
             published |-> FALSE, raised |-> FALSE]

\* the texts that can be accepted
ValidTexts == {T_go, T_no}

Never == -1

\* no synthesize_and_play call has got its audio yet
NoSynth == [audio |-> "none", injected |-> FALSE]

AudioInit(callback_set) ==
    /\ is_listening = FALSE
    /\ audio_buffer = <<>>
    /\ silence_counter = 0
    /\ on_transcription_callback = callback_set
    /\ _processing_buffer = FALSE
    /\ _last_transcription = NoText
    /\ _last_transcription_time = 0
    /\ _is_speaking = FALSE
    /\ tasks = <<>>
    /\ synth_pc = "idle"
    /\ now = 0
    /\ g_last = "none"
    /\ g_heard = <<>>
    /\ g_run = 0
    /\ g_due = FALSE
    /\ flush_result = NoResult
    /\ g_latest = [text |-> NoText, time |-> 0]
    /\ g_accepted_at = [t \in ValidTexts |-> Never]
    /\ g_scenario = "start"
    /\ g_synth = NoSynth

RemoveAt(seq, i) == SubSeq(seq, 1, i - 1) \o SubSeq(seq, i + 1, Len(seq))

(***************************************************************************)
(* History of the decisions.  g_scenario follows the scenario "a text is   *)
(* accepted at t, arrives again at t + 1.5 s and is suppressed, arrives    *)
(* again at t + 3.5 s and is accepted": it is "accepted" after an          *)
(* acceptance, "suppressed" once the repeat at t + 1.5 s was suppressed,   *)
(* "renewed" once the repeat at t + 3.5 s was accepted, and "broken" when  *)
(* one of the two repeats was decided the other way.                       *)
(***************************************************************************)
ScenarioStep(outcome, text, time) ==
    LET same == text = g_latest.text
        at   == time - g_latest.time
    IN  IF outcome = "invalid" THEN g_scenario
        ELSE IF g_scenario = "broken" THEN "broken"
        ELSE IF g_scenario = "accepted" /\ same /\ at = 3
             THEN (IF outcome = "duplicate" THEN "suppressed" ELSE "broken")
        ELSE IF g_scenario = "suppressed" /\ same /\ at = 7
             THEN (IF outcome = "accepted" THEN "renewed" ELSE "broken")
        ELSE IF outcome = "accepted" THEN "accepted"
        ELSE IF g_scenario = "suppressed" THEN "suppressed"
        ELSE "start"

(***************************************************************************)
(* History of the chunks, kept from the inputs alone: a chunk is "muted"   *)
(* while a reply is synthesized and "busy" while a flush is in flight;     *)
(* otherwise a speech chunk joins g_heard and ends the silent run, and a   *)
(* silence chunk after speech extends the run; the run reaching the        *)
(* threshold ends the utterance.                                           *)
(***************************************************************************)
Disposition(chunk) ==
    IF _is_speaking
    THEN (IF is_speech(chunk) THEN "muted_speech" ELSE "muted_silence")
    ELSE IF tasks # <<>>
    THEN (IF is_speech(chunk) THEN "busy_speech" ELSE "busy_silence")
    ELSE IF is_speech(chunk) THEN "speech"
    ELSE IF g_heard # <<>> THEN "silence"
    ELSE "idle"

Observe(chunk) ==
    LET d == Disposition(chunk) IN
    /\ g_last' = d
    /\ g_heard' = IF d = "speech" THEN Append(g_heard, chunk)
                  ELSE IF d = "silence" /\ g_run + 1 = silence_threshold
                       THEN <<>>
                  ELSE g_heard
    /\ g_run' = IF d = "speech" THEN 0
                ELSE IF d = "silence"
                     THEN (IF g_run + 1 = silence_threshold THEN 0
                           ELSE g_run + 1)
                ELSE g_run
    /\ g_due' = (d = "silence" /\ g_run + 1 = silence_threshold)

Unobserved == /\ g_last' = "none"
              /\ g_due' = FALSE
              /\ UNCHANGED <<g_heard, g_run>>

\* FlushStart without the guard flag: neither tested nor set
FlushStart_unguarded(sc) ==
    IF audio_buffer = <<>>
    THEN /\ silence_counter' = sc
         /\ UNCHANGED <<audio_buffer, is_listening, _processing_buffer, tasks>>
    ELSE /\ UNCHANGED _processing_buffer
         /\ tasks' = Append(tasks, [pc           |-> "transcribe",
                                    current_time |-> now,
                                    wav_data     |-> _chunks_to_wav(audio_buffer),
                                    text         |-> NoText])
         /\ audio_buffer' = <<>>
         /\ is_listening' = FALSE
         /\ silence_counter' = 0

\* FlushStart leaving the reset of the buffer, the counter and the
\* listening flag for after the transcription
FlushStart_no_reset(sc) ==
    IF audio_buffer = <<>> \/ _processing_buffer
    THEN /\ silence_counter' = sc
         /\ UNCHANGED <<audio_buffer, is_listening, _processing_buffer, tasks>>
    ELSE /\ _processing_buffer' = TRUE
         /\ tasks' = Append(tasks, [pc           |-> "transcribe",
                                    current_time |-> now,
                                    wav_data     |-> _chunks_to_wav(audio_buffer),
                                    text         |-> NoText])
         /\ silence_counter' = sc
         /\ UNCHANGED <<audio_buffer, is_listening>>

\* FlushStart taking its copy of the buffer after the reset
FlushStart_late_copy(sc) ==
    IF audio_buffer = <<>> \/ _processing_buffer
    THEN /\ silence_counter' = sc
         /\ UNCHANGED <<audio_buffer, is_listening, _processing_buffer, tasks>>
    ELSE /\ _processing_buffer' = TRUE
         /\ tasks' = Append(tasks, [pc           |-> "transcribe",
                                    current_time |-> now,
                                    wav_data     |-> _chunks_to_wav(<<>>),
                                    text         |-> NoText])
         /\ audio_buffer' = <<>>
         /\ is_listening' = FALSE
         /\ silence_counter' = 0

(***************************************************************************)
(* AudioManager._process_buffered_audio up to its first await              *)
(* (audio_manager.py:74-102), entered with silence_counter = sc.           *)
(***************************************************************************)
FlushStart(sc) ==
    IF audio_buffer = <<>> \/ _processing_buffer
    THEN /\ silence_counter' = sc
         /\ UNCHANGED <<audio_buffer, is_listening, _processing_buffer, tasks>>
    ELSE /\ _processing_buffer' = TRUE
         /\ tasks' = Append(tasks, [pc           |-> "transcribe",
                                    current_time |-> now,
                                    wav_data     |-> _chunks_to_wav(audio_buffer),
                                    text         |-> NoText])
         /\ audio_buffer' = <<>>
         /\ is_listening' = FALSE
         /\ silence_counter' = 0

\* threshold_reached with a strict comparison
threshold_reached_late(sc) == sc > silence_threshold

\* audio_manager.py:68  the test that ends an utterance
threshold_reached(sc) == sc >= silence_threshold

\* chunk_skipped without the test of _processing_buffer
chunk_skipped_while_speaking_only == _is_speaking

\* chunk_skipped without the test of _is_speaking
chunk_skipped_while_flushing_only == _processing_buffer

\* audio_manager.py:46-53  the two gates in front of the classifier
chunk_skipped == _is_speaking \/ _processing_buffer

(***************************************************************************)
(* AudioManager.process_audio_chunk (audio_manager.py:39-72), as scheduled *)
(* on the event loop for one chunk by AudioCapture._audio_callback.        *)
(***************************************************************************)
process_audio_chunk(chunk) ==
    /\ IF chunk_skipped
       THEN UNCHANGED <<audio_buffer, silence_counter, is_listening,
                        _processing_buffer, tasks>>
       ELSE IF is_speech(chunk)
       THEN /\ audio_buffer' = Append(audio_buffer, chunk)
            /\ silence_counter' = 0
            /\ is_listening' = TRUE
            /\ UNCHANGED <<_processing_buffer, tasks>>
       ELSE IF is_listening
       THEN IF threshold_reached(silence_counter + 1)
            THEN FlushStart(silence_counter + 1)
            ELSE /\ silence_counter' = silence_counter + 1
                 /\ UNCHANGED <<audio_buffer, is_listening,
                                _processing_buffer, tasks>>
       ELSE UNCHANGED <<audio_buffer, silence_counter, is_listening,
                        _processing_buffer, tasks>>
    /\ Observe(chunk)
    /\ UNCHANGED <<cap_vars, bus_vars, overlay_vars, orch_vars, start_vars,
                   state_vars, detected>>
    /\ UNCHANGED <<on_transcription_callback, _last_transcription,
                   _last_transcription_time, _is_speaking, synth_pc, now,
                   flush_result, g_latest, g_accepted_at, g_scenario,
                   g_synth>>


(***************************************************************************)
(* The rest of _process_buffered_audio (audio_manager.py:104-128).         *)
(***************************************************************************)
\* is_duplicate with the cooldown bound included
is_duplicate_inclusive(text, current_time) ==
    /\ text = _last_transcription
    /\ current_time - _last_transcription_time <= _cooldown_period

\* audio_manager.py:107-108  same text as the last one, inside the cooldown
is_duplicate(text, current_time) ==
    /\ text = _last_transcription
    /\ current_time - _last_transcription_time < _cooldown_period

\* audio_manager.py:104-114  what becomes of a transcript
flush_outcome(text, current_time) ==
    IF ~is_valid_transcription(text) THEN "invalid"
    ELSE IF is_duplicate(text, current_time) THEN "duplicate"
    ELSE "accepted"

\* record_last refreshing the time on a suppressed duplicate as well
record_last_on_duplicate(outcome, text, current_time) ==
    IF outcome \in {"accepted", "duplicate"}
    THEN <<text, current_time>>
    ELSE <<_last_transcription, _last_transcription_time>>

\* audio_manager.py:112-114  the last accepted text and its time
record_last(outcome, text, current_time) ==
    IF outcome = "accepted"
    THEN <<text, current_time>>
    ELSE <<_last_transcription, _last_transcription_time>>

\* FlushEnd clearing the flag on the normal path only
FlushEnd_no_finally(i, raised) ==
    /\ tasks' = RemoveAt(tasks, i)
    /\ _processing_buffer' = IF raised THEN _processing_buffer ELSE FALSE

\* audio_manager.py:125-128  the except and finally clauses: whatever was
\* raised is logged, and the flush leaves with the flag cleared
FlushEnd(i, raised) ==
    /\ tasks' = RemoveAt(tasks, i)
    /\ _processing_buffer' = FALSE

\* audio_manager.py:102-123  stt.transcribe returns to flush i
TranscribeReturns(i, response) ==
    LET task    == tasks[i]
        text    == transcribe(response)
        outcome == flush_outcome(text, task.current_time)
        last    == record_last(outcome, text, task.current_time)
    IN  /\ task.pc = "transcribe"
        /\ _last_transcription' = last[1]
        /\ _last_transcription_time' = last[2]
        /\ IF outcome = "accepted" /\ on_transcription_callback
           THEN /\ tasks' = [tasks EXCEPT ![i] =
                                [@ EXCEPT !.pc = "callback", !.text = text]]
                /\ UNCHANGED _processing_buffer
           ELSE FlushEnd(i, FALSE)
        /\ flush_result' = [outcome |-> outcome, ok |-> response.ok,
                            text |-> text, time |-> task.current_time,
                            published |-> FALSE, raised |-> FALSE]
        /\ g_latest' = IF outcome = "accepted"
                       THEN [text |-> text, time |-> task.current_time]
                       ELSE g_latest
        /\ g_accepted_at' = IF /\ outcome = "accepted"
                               /\ text \in ValidTexts
                            THEN [g_accepted_at EXCEPT
                                     ![text] = task.current_time]
                            ELSE g_accepted_at
        /\ g_scenario' = ScenarioStep(outcome, text, task.current_time)
        /\ Unobserved
        /\ UNCHANGED non_audio_vars
        /\ UNCHANGED <<is_listening, audio_buffer, silence_counter,
                       on_transcription_callback, _is_speaking, synth_pc, now,
                       g_synth>>

\* audio_manager.py:119-128 with orchestrator.py:303-306  the transcription
\* callback publishes the utterance, or raises, and the flush ends
CallbackReturns(i, raised) ==
    /\ tasks[i].pc = "callback"
    /\ FlushEnd(i, raised)
    /\ flush_result' = [flush_result EXCEPT !.published = ~raised,
                                             !.raised = raised]
    /\ Unobserved
    /\ UNCHANGED non_audio_vars
    /\ UNCHANGED <<is_listening, audio_buffer, silence_counter,
                   on_transcription_callback, _last_transcription,
                   _last_transcription_time, _is_speaking, synth_pc, now,
                   g_latest, g_accepted_at, g_scenario,
                   g_synth>>

\* audio_manager.py:190-198  AudioManager.set_transcription_callback
set_transcription_callback ==
    /\ ~on_transcription_callback
    /\ on_transcription_callback' = TRUE
    /\ Unobserved
    /\ UNCHANGED non_audio_vars
    /\ UNCHANGED <<is_listening, audio_buffer, silence_counter,
                   _processing_buffer, _last_transcription,
                   _last_transcription_time, _is_speaking, tasks, synth_pc,
                   now, flush_result, g_latest, g_accepted_at, g_scenario,
                   g_synth>>

\* clear_buffer leaving the listening flag as it is
clear_buffer_keeps_listening ==
    /\ audio_buffer' = <<>>
    /\ UNCHANGED is_listening
    /\ silence_counter' = 0
    /\ g_last' = "none"
    /\ g_due' = FALSE
    /\ g_heard' = <<>>
    /\ g_run' = 0
    /\ UNCHANGED non_audio_vars
    /\ UNCHANGED <<on_transcription_callback, _processing_buffer,
                   _last_transcription, _last_transcription_time,
                   _is_speaking, tasks, synth_pc, now, flush_result,
                   g_latest, g_accepted_at, g_scenario,
                   g_synth>>

\* audio_manager.py:210-215  AudioManager.clear_buffer
clear_buffer ==
    /\ audio_buffer' = <<>>
    /\ is_listening' = FALSE
    /\ silence_counter' = 0
    /\ g_last' = "none"
    /\ g_due' = FALSE
    /\ g_heard' = <<>>
    /\ g_run' = 0
    /\ UNCHANGED non_audio_vars
    /\ UNCHANGED <<on_transcription_callback, _processing_buffer,
                   _last_transcription, _last_transcription_time,
                   _is_speaking, tasks, synth_pc, now, flush_result,
                   g_latest, g_accepted_at, g_scenario,
                   g_synth>>

(***************************************************************************)
(* AudioManager.synthesize_and_play (audio_manager.py:153-188), called by  *)
(* the one reply handler (orchestrator.py:225-227).                        *)
(***************************************************************************)
SynthFrame == <<is_listening, audio_buffer, silence_counter,
                on_transcription_callback, _processing_buffer,
                _last_transcription, _last_transcription_time, tasks, now,
                flush_result, g_latest, g_accepted_at, g_scenario>>

\* audio_manager.py:160-167  up to the await of tts.synthesize
synthesize_and_play_begin ==
    /\ synth_pc = "idle"
    /\ _is_speaking' = TRUE
    /\ synth_pc' = "tts"
    /\ g_synth' = NoSynth
    /\ Unobserved
    /\ UNCHANGED SynthFrame

\* audio_manager.py:153-167  AudioManager.synthesize_and_play, called alone
synthesize_and_play ==
    /\ synthesize_and_play_begin
    /\ UNCHANGED non_audio_vars

\* text_to_speech.py:23-73  TextToSpeech.synthesize: the audio, or empty
\* audio when the text is blank or the synthesis raised
EmptyAudio == "b''"
SomeAudio == "mp3"
synthesize(has_audio) == IF has_audio THEN SomeAudio ELSE EmptyAudio

\* the test of audio_manager.py:169 without its first operand
callback_due_unchecked(audio_data) == TRUE

\* audio_manager.py:169  'if audio_data and self.on_audio_generated_callback';
\* the callback is set (orchestrator.py:265)
callback_due(audio_data) == audio_data # EmptyAudio

\* audio_manager.py:167-181  the audio comes back (empty when synthesis
\* failed); non-empty audio goes to the audio-generated callback
TtsReturns(has_audio) ==
    /\ synth_pc = "tts"
    /\ synth_pc' = IF callback_due(synthesize(has_audio))
                   THEN "inject" ELSE "sleep"
    /\ g_synth' = [audio    |-> synthesize(has_audio),
                   injected |-> callback_due(synthesize(has_audio))]
    /\ UNCHANGED _is_speaking
    /\ Unobserved
    /\ UNCHANGED non_audio_vars
    /\ UNCHANGED SynthFrame

\* InjectReturns without the finally clause: a raising callback leaves
\* _is_speaking set
InjectReturns_no_finally(raised) ==
    /\ synth_pc = "inject"
    /\ synth_pc' = IF raised THEN "idle" ELSE "sleep"
    /\ UNCHANGED _is_speaking
    /\ UNCHANGED g_synth
    /\ Unobserved
    /\ UNCHANGED non_audio_vars
    /\ UNCHANGED SynthFrame

\* audio_manager.py:169-188  the callback returns or raises
InjectReturns(raised) ==
    /\ synth_pc = "inject"
    /\ synth_pc' = IF raised THEN "idle" ELSE "sleep"
    /\ _is_speaking' = IF raised THEN FALSE ELSE _is_speaking
    /\ UNCHANGED g_synth
    /\ Unobserved
    /\ UNCHANGED non_audio_vars
    /\ UNCHANGED SynthFrame

\* audio_manager.py:181-188  the sleep for the estimated duration ends
SleepReturns ==
    /\ synth_pc = "sleep"
    /\ synth_pc' = "idle"
    /\ _is_speaking' = FALSE
    /\ UNCHANGED g_synth
    /\ Unobserved
    /\ UNCHANGED non_audio_vars
    /\ UNCHANGED SynthFrame

\* time passes
Tick ==
    /\ now < MaxTime
    /\ now' = now + 1
    /\ Unobserved
    /\ UNCHANGED non_audio_vars
    /\ UNCHANGED <<is_listening, audio_buffer, silence_counter,
                   on_transcription_callback, _processing_buffer,
                   _last_transcription, _last_transcription_time,
                   _is_speaking, tasks, synth_pc, flush_result, g_latest,
                   g_accepted_at, g_scenario,
                   g_synth>>

(***************************************************************************)
(* The capture pipeline.  A frame is [width, height, cells]: its size in   *)
(* pixels and its content, given as the BGR colour of each of 20 vertical  *)
(* bands of equal width.                                                   *)
(***************************************************************************)
max_width == 1280                   \* config.py:24
change_threshold_percent == 10      \* config.py:23  change_threshold = 0.10
max_context_frames == 5             \* config.py:35
fps == 2                            \* config.py:22
TicksPerSecond == 2                 \* the clock counts half seconds
frame_interval == TicksPerSecond \div fps   \* 1.0 / config.screen.fps

Cells == 1..20

Black == <<0, 0, 0>>
White == <<255, 255, 255>>
Dim   == <<20, 20, 20>>
Blue  == <<255, 0, 0>>

\* a screen whose first k bands have the given colour on a black background
Pattern(k, colour) == [i \in Cells |-> IF i <= k THEN colour ELSE Black]

Screens == {Pattern(0, Black), Pattern(1, White), Pattern(2, White),
            Pattern(3, White), Pattern(1, Dim), Pattern(3, Blue)}

\* the bounds of the shared screen (orchestrator.py:107-111)
Regions == {[width |-> 1280, height |-> 720],
            [width |-> 2560, height |-> 1440]}

NoRegion == [width |-> 0, height |-> 0]
NoFrame == [width |-> 0, height |-> 0, cells |-> <<>>]

\* screen_capturer.py:42-82  ScreenCapturer.capture_frame: the grabbed
\* frame, or None when the grab raised
capture_frame(content, ok) ==
    IF ok THEN [width |-> region.width, height |-> region.height,
                cells |-> content]
    ELSE NoFrame

\* screen_capturer.py:84-120  the downscale of capture_frame_optimized
optimized(frame) ==
    IF frame = NoFrame THEN NoFrame
    ELSE IF frame.width > max_width
    THEN [width  |-> max_width,
          height |-> (frame.height * max_width) \div frame.width,
          cells  |-> frame.cells]
    ELSE frame

\* cv2.absdiff on one pixel
AbsDiff(p, q) ==
    [c \in 1..3 |-> IF p[c] >= q[c] THEN p[c] - q[c] ELSE q[c] - p[c]]

\* cv2.cvtColor(..., COLOR_BGR2GRAY) on one 8-bit pixel
Gray(p) == (p[1] * 1868 + p[2] * 9617 + p[3] * 4899 + 8192) \div 16384

\* screen_capturer.py:147-155  np.sum(diff_gray > 30) and diff_gray.size
changed_pixels(a, b) ==
    Cardinality({i \in Cells : Gray(AbsDiff(a.cells[i], b.cells[i])) > 30})
        * ((a.width * a.height) \div Cardinality(Cells))

total_pixels(a) == a.width * a.height

\* a threshold argument of None, in percent as the others
NoThreshold == 0

\* screen_capturer.py:141  'threshold or config.screen.change_threshold'
threshold_or_config(threshold) ==
    IF threshold = NoThreshold THEN change_threshold_percent ELSE threshold

\* detect_significant_change taking a fraction equal to the threshold for
\* a change
detect_significant_change_inclusive(current_frame, last, threshold) ==
    IF last = NoFrame THEN TRUE
    ELSE IF current_frame.width # last.width
            \/ current_frame.height # last.height THEN TRUE
    ELSE changed_pixels(current_frame, last) * 100
            >= threshold_or_config(threshold) * total_pixels(current_frame)

\* screen_capturer.py:122-169  ScreenCapturer.detect_significant_change,
\* with self.last_frame = last
detect_significant_change(current_frame, last, threshold) ==
    IF last = NoFrame THEN TRUE
    ELSE IF current_frame.width # last.width
            \/ current_frame.height # last.height THEN TRUE
    ELSE changed_pixels(current_frame, last) * 100
            > threshold_or_config(threshold) * total_pixels(current_frame)

\* add_frame on a deque without maxlen
add_frame_unbounded(frame_data, changed) ==
    LET frame == [data |-> frame_data, frame_number |-> current_frame_number,
                  changed |-> changed, processed |-> FALSE]
    IN  /\ frames' = Append(frames, frame)
        /\ current_frame_number' = current_frame_number + 1
        /\ g_added' = Append(g_added, [data |-> frame_data,
                                       changed |-> changed,
                                       frame_number |-> frame.frame_number])

\* frame_buffer.py:38-65  FrameBuffer.add_frame on a deque(maxlen=max_size)
add_frame(frame_data, changed) ==
    LET frame == [data |-> frame_data, frame_number |-> current_frame_number,
                  changed |-> changed, processed |-> FALSE]
    IN  /\ frames' = IF Len(frames) = max_context_frames
                     THEN Append(Tail(frames), frame)
                     ELSE Append(frames, frame)
        /\ current_frame_number' = current_frame_number + 1
        \* history: what was given, and the number the buffer gave it
        /\ g_added' = Append(g_added, [data |-> frame_data,
                                       changed |-> changed,
                                       frame_number |-> frame.frame_number])

\* the position in the deque of the first frame with this number, 0 if none
FirstWithNumber(frame_number) ==
    IF \E i \in 1..Len(frames) : frames[i].frame_number = frame_number
    THEN CHOOSE i \in 1..Len(frames) :
            /\ frames[i].frame_number = frame_number
            /\ \A j \in 1..(i - 1) : frames[j].frame_number # frame_number
    ELSE 0

\* frame_buffer.py:92-104  FrameBuffer.mark_frame_processed
mark_frame_processed(frame_number) ==
    LET i == FirstWithNumber(frame_number)
    IN  frames' = IF i = 0 THEN frames
                  ELSE [frames EXCEPT ![i].processed = TRUE]

\* frame_buffer.py:145-149  FrameBuffer.clear_buffer
FrameBuffer_clear_buffer ==
    /\ frames' = <<>>
    /\ g_cleared' = Len(g_added)

NoAttempt == [comparable |-> FALSE, above |-> FALSE, published |-> FALSE,
              buffered |-> FALSE]

\* before the screen share is found: no capturer, no frame buffer
CaptureOff ==
    /\ region = NoRegion
    /\ last_frame = NoFrame
    /\ frames = <<>>
    /\ current_frame_number = 0
    /\ current_screen = NoFrame
    /\ screen_changed = FALSE
    /\ cap_pc = "off"
    /\ q_screen_changed = <<>>
    /\ g_reference = NoFrame
    /\ g_cap = NoAttempt
    /\ g_added = <<>>
    /\ g_cleared = 0
    /\ cap_wake_at = 0
    /\ g_attempt_at = Never
    /\ g_gap = Never

\* orchestrator.py:109-113, 257-260 with screen_capturer.py:17-30: the
\* capturer and the frame buffer are made and the capture loop is started
StartScreenCapture(bounds) ==
    /\ cap_pc = "off"
    /\ region' = bounds
    /\ cap_pc' = "capture"
    \* orchestrator.py:113  set_meeting_state(in_meeting=True, screen_share=True)
    /\ is_in_meeting' = TRUE
    /\ screen_share_active' = TRUE
    /\ UNCHANGED <<last_frame, frames, current_frame_number, current_screen,
                   screen_changed, q_screen_changed, g_reference, g_cap,
                   g_added, g_cleared>>
    /\ UNCHANGED cap_time_vars
    /\ UNCHANGED <<audio_vars, ghost_vars, bus_vars, overlay_vars, orch_vars,
                   start_vars>>
    /\ UNCHANGED <<_lock, st_call, g_committed, g_read, bridge_vars, detected>>

\* the fraction of the pixels of candidate that differ from those of
\* reference by more than the delta is above the threshold
FractionAbove(candidate, reference) ==
    changed_pixels(candidate, reference) * 100
        > change_threshold_percent * total_pixels(candidate)

SameShape(a, b) == a.width = b.width /\ a.height = b.height

(***************************************************************************)
(* One turn of Orchestrator._screen_capture_loop (orchestrator.py:278-296) *)
(* up to its sleep; no await before the sleep suspends.  The screen shows  *)
(* content; ok is FALSE when the grab fails.                               *)
(***************************************************************************)
CaptureAttempt(content, ok) ==
    LET raw     == capture_frame(content, ok)
        frame   == optimized(raw)
        \* screen_capturer.py:75  capture_frame has replaced last_frame
        last    == IF ok THEN raw ELSE last_frame
        changed == ok /\ detect_significant_change(frame, last, NoThreshold)
    IN  /\ cap_pc = "capture"
        /\ current_frame_number < MaxFrames
        /\ Len(q_screen_changed) < MaxQueue
        /\ last_frame' = last
        /\ IF changed
           THEN /\ add_frame(frame, TRUE)
                /\ current_screen' = frame
                /\ screen_changed' = TRUE
                /\ q_screen_changed' = Append(q_screen_changed, frame)
           ELSE UNCHANGED <<frames, current_frame_number, current_screen,
                            screen_changed, q_screen_changed, g_added>>
        /\ cap_pc' = "sleep"
        /\ g_cap' = [comparable |-> /\ ok
                                    /\ g_reference # NoFrame
                                    /\ SameShape(frame, g_reference),
                     above      |-> /\ ok
                                    /\ g_reference # NoFrame
                                    /\ SameShape(frame, g_reference)
                                    /\ FractionAbove(frame, g_reference),
                     published  |-> q_screen_changed' # q_screen_changed,
                     buffered   |-> frames' # frames]
        /\ g_reference' = IF frames' # frames THEN frame ELSE g_reference
        \* orchestrator.py:296  asyncio.sleep(1.0 / config.screen.fps)
        /\ cap_wake_at' = now + frame_interval
        /\ g_attempt_at' = now
        /\ g_gap' = IF g_attempt_at = Never THEN Never ELSE now - g_attempt_at
        /\ UNCHANGED <<region, g_cleared>>
        /\ UNCHANGED non_cap_vars

\* a sleep that may end at once
CaptureWake_early ==
    /\ cap_pc = "sleep"
    /\ cap_pc' = IF _running THEN "capture" ELSE "done"
    /\ UNCHANGED <<region, last_frame, frames, current_frame_number,
                   current_screen, screen_changed, q_screen_changed,
                   g_reference, g_cap, g_added, g_cleared>>
    /\ UNCHANGED cap_time_vars
    /\ UNCHANGED non_cap_vars

\* orchestrator.py:278, 296  the sleep of 1/fps ends, not before it is due,
\* and the loop condition is tested
CaptureWake ==
    /\ cap_pc = "sleep"
    /\ now >= cap_wake_at
    /\ cap_pc' = IF _running THEN "capture" ELSE "done"
    /\ UNCHANGED <<region, last_frame, frames, current_frame_number,
                   current_screen, screen_changed, q_screen_changed,
                   g_reference, g_cap, g_added, g_cleared>>
    /\ UNCHANGED cap_time_vars
    /\ UNCHANGED non_cap_vars

\* orchestrator.py:240-251 with state_manager.py:37-46: the handler takes
\* the next 'screen_changed' event and updates the session state
HandleScreenChange ==
    /\ h_screen_pc = "get"
    /\ q_screen_changed # <<>>
    /\ current_screen' = Head(q_screen_changed)
    /\ screen_changed' = TRUE
    /\ q_screen_changed' = Tail(q_screen_changed)
    \* orchestrator.py:244  while self._running
    /\ h_screen_pc' = IF _running THEN "get" ELSE "done"
    /\ UNCHANGED <<region, last_frame, frames, current_frame_number, cap_pc,
                   g_reference, g_cap, g_added, g_cleared>>
    /\ UNCHANGED cap_time_vars
    /\ UNCHANGED <<audio_vars, ghost_vars, bus_vars, overlay_vars>>
    /\ UNCHANGED <<start_vars, side_vars>>
    /\ UNCHANGED <<_running, stop_pc, h_user_pc, h_ai_pc, q_user_spoke,
                   q_ai_response, messages, processing_query,
                   last_transcription, h_user_job, g_utter, g_released>>

(***************************************************************************)
(* The event bus (core/event_bus.py).  A queue is named by the order of    *)
(* its creation; an event is [type, data].  Queues are unbounded, so       *)
(* queue.put never suspends and publish runs without interruption.         *)
(***************************************************************************)
EventTypes == {"user_spoke", "screen_changed"}

\* the lists of event types a caller may pass: one type, two types, and
\* one type twice
TypeLists == {<<"screen_changed">>, <<"user_spoke">>,
              <<"user_spoke", "screen_changed">>,
              <<"user_spoke", "user_spoke">>}

\* the queues that callers create
QueueNames == {1, 2}

Range(seq) == {seq[i] : i \in 1..Len(seq)}

\* put at the wrong end
put_front(queue, event) == <<event>> \o queue

\* asyncio.Queue.put
put(queue, event) == Append(queue, event)

\* event_bus.py:41-42  every queue in the list gets the event, in list order
RECURSIVE put_each(_, _, _)
put_each(qs, list, event) ==
    IF list = <<>> THEN qs
    ELSE put_each([qs EXCEPT ![Head(list)] = put(qs[Head(list)], event)],
                  Tail(list), event)

\* a publish that puts the event on every queue
publish_broadcast(event_type, data) ==
    LET event == [type |-> event_type, data |-> data]
    IN  /\ queues' = [q \in DOMAIN queues |-> put(queues[q], event)]
        /\ _event_count' = _event_count + 1
        /\ UNCHANGED _subscribers

\* event_bus.py:31-46  EventBus.publish
publish(event_type, data) ==
    LET event == [type |-> event_type, data |-> data]
    IN  /\ IF event_type \in DOMAIN _subscribers
           THEN /\ queues' = put_each(queues, _subscribers[event_type], event)
                /\ _event_count' = _event_count + 1
           ELSE UNCHANGED <<queues, _event_count>>
        /\ UNCHANGED _subscribers

\* event_bus.py:60-64  the loop of subscribe over event_types
RECURSIVE subscribe_each(_, _, _)
subscribe_each(subs, event_types, queue) ==
    IF event_types = <<>> THEN subs
    ELSE LET event_type == Head(event_types)
             list == IF event_type \in DOMAIN subs
                     THEN subs[event_type] ELSE <<>>
         IN  subscribe_each(
                 [t \in DOMAIN subs \cup {event_type} |->
                     IF t = event_type THEN Append(list, queue) ELSE subs[t]],
                 Tail(event_types), queue)

\* event_bus.py:48-67  EventBus.subscribe; the new queue is the result
subscribe(event_types) ==
    LET queue == Len(queues) + 1
    IN  /\ queues' = Append(queues, <<>>)
        /\ _subscribers' = subscribe_each(_subscribers, event_types, queue)
        /\ UNCHANGED _event_count

\* list.remove(queue): the first occurrence goes
RemoveFirst(list, queue) ==
    RemoveAt(list, CHOOSE i \in 1..Len(list) :
                       /\ list[i] = queue
                       /\ \A j \in 1..(i - 1) : list[j] # queue)

\* event_bus.py:77-80  the loop of unsubscribe over event_types
RECURSIVE unsubscribe_each(_, _, _)
unsubscribe_each(subs, event_types, queue) ==
    IF event_types = <<>> THEN subs
    ELSE LET event_type == Head(event_types)
         IN  unsubscribe_each(
                 IF /\ event_type \in DOMAIN subs
                    /\ queue \in Range(subs[event_type])
                 THEN [subs EXCEPT ![event_type] =
                          RemoveFirst(subs[event_type], queue)]
                 ELSE subs,
                 Tail(event_types), queue)

\* event_bus.py:69-82  EventBus.unsubscribe
unsubscribe(event_types, queue) ==
    /\ _subscribers' = unsubscribe_each(_subscribers, event_types, queue)
    /\ UNCHANGED <<queues, _event_count>>

\* event_bus.py:119-126
get_event_count == _event_count

\* event_bus.py:24-29  EventBus.__init__
BusInit ==
    /\ _subscribers = <<>>
    /\ queues = <<>>
    /\ _event_count = 0
    /\ g_published = <<>>
    /\ g_last_taken = <<>>
    /\ g_asked = {}
    /\ g_registered = {}
    /\ g_created_at = <<>>

(***************************************************************************)
(* Direct calls on the event bus.  The data of an event is the number of   *)
(* the publish call that carried it.                                       *)
(***************************************************************************)
publish_calls == Len(g_published)

Publish(event_type) ==
    /\ publish_calls < MaxPublish
    /\ publish(event_type, publish_calls + 1)
    /\ g_published' = Append(g_published, event_type)
    /\ UNCHANGED <<g_last_taken, g_asked, g_registered, g_created_at>>
    /\ UNCHANGED non_bus_vars

Subscribe(event_types) ==
    /\ Len(queues) + 1 \in QueueNames
    /\ subscribe(event_types)
    /\ g_last_taken' = Append(g_last_taken, 0)
    /\ g_asked' = g_asked \cup {<<Len(queues) + 1, t>> : t \in Range(event_types)}
    /\ g_registered' =
          g_registered \cup {<<Len(queues) + 1, t>> : t \in Range(event_types)}
    /\ g_created_at' = Append(g_created_at, publish_calls)
    /\ UNCHANGED g_published
    /\ UNCHANGED non_bus_vars

Unsubscribe(event_types, queue) ==
    /\ unsubscribe(event_types, queue)
    /\ g_registered' =
          g_registered \ {<<queue, t>> : t \in Range(event_types)}
    /\ UNCHANGED <<g_published, g_last_taken, g_asked, g_created_at>>
    /\ UNCHANGED non_bus_vars

\* a consumer's queue.get() returns the oldest event
QueueGet(queue) ==
    /\ queues[queue] # <<>>
    /\ queues' = [queues EXCEPT ![queue] = Tail(@)]
    /\ g_last_taken' = [g_last_taken EXCEPT ![queue] = Head(queues[queue]).data]
    /\ UNCHANGED <<_subscribers, _event_count, g_published, g_asked,
                   g_registered, g_created_at>>
    /\ UNCHANGED non_bus_vars

(***************************************************************************)
(* The overlay's annotations (overlay/macos_overlay.py) and the sweep of   *)
(* the annotation manager (overlay/annotation_manager.py).  An annotation  *)
(* is [id, created_at, duration], times in half seconds.                   *)
(***************************************************************************)
default_duration == 10      \* config.py:62  5.0 seconds
sweep_period == 2           \* annotation_manager.py:82  asyncio.sleep(1)

\* the durations a caller passes, 0 for None: 1.0 s, 1.5 s, or none
Durations == {0, 2, 3}

\* macos_overlay.py:36  duration or config.overlay.default_duration
Annotation(id, duration) ==
    [id |-> id, created_at |-> Never,
     duration |-> IF duration = 0 THEN default_duration ELSE duration]

\* macos_overlay.py:210-220  MacOSOverlay.add_annotation
add_annotation(annotation) ==
    annotations' = Append(annotations, [annotation EXCEPT !.created_at = now])

\* macos_overlay.py:222-225  MacOSOverlay.clear_annotations
clear_annotations == annotations' = <<>>

\* a sweep that keeps an annotation whose age equals its duration
remove_expired_annotations_late ==
    LET current_time == now
        keep(ann) == current_time - ann.created_at <= ann.duration
    IN  annotations' = SelectSeq(annotations, keep)

\* macos_overlay.py:227-240  MacOSOverlay.remove_expired_annotations
remove_expired_annotations ==
    LET current_time == now
        keep(ann) == current_time - ann.created_at < ann.duration
    IN  annotations' = SelectSeq(annotations, keep)

\* annotation_manager.py:68-76  the cleanup loop has begun its first sleep
OverlayInit ==
    /\ annotations = <<>>
    /\ active_annotations = <<>>
    /\ sweep_wake_at = sweep_period
    /\ g_shown = {}
    /\ g_annotated = 0
    /\ _cleanup_task = "sleeping"

\* annotation_manager.py:102-109  AnnotationManager.get_active_count
get_active_count == Len(active_annotations)

\* annotation_manager.py:35-48  AnnotationManager.add_annotation, with an
\* overlay set
AddAnnotation(duration) ==
    LET annotation == Annotation(g_annotated + 1, duration)
    IN  /\ g_annotated < MaxAnnotations
        /\ add_annotation(annotation)
        /\ active_annotations' = Append(active_annotations,
                                        [annotation EXCEPT !.created_at = now])
        /\ g_annotated' = g_annotated + 1
        /\ g_shown' = g_shown \cup {[annotation EXCEPT !.created_at = now]}
        /\ UNCHANGED <<sweep_wake_at, _cleanup_task>>
        /\ UNCHANGED non_overlay_vars

\* annotation_manager.py:59-65  AnnotationManager.clear_all
ClearAll ==
    /\ clear_annotations
    /\ active_annotations' = <<>>
    /\ g_shown' = {}
    /\ UNCHANGED <<sweep_wake_at, g_annotated, _cleanup_task>>
    /\ UNCHANGED non_overlay_vars

\* annotation_manager.py:78-88  one turn of _cleanup_loop: the sleep ends,
\* not before it is due, the sweep runs and the next sleep begins
Sweep ==
    /\ _cleanup_task = "sleeping"
    /\ now >= sweep_wake_at
    /\ remove_expired_annotations
    /\ sweep_wake_at' = now + sweep_period
    /\ UNCHANGED <<active_annotations, g_shown, g_annotated, _cleanup_task>>
    /\ UNCHANGED non_overlay_vars

(***************************************************************************)
(* The session (core/orchestrator.py).  start() creates the three handler  *)
(* tasks before any other task and sets _running before it first gives up  *)
(* the event loop, so each handler has subscribed and waits at queue.get()  *)
(* before anything is published.  An utterance is named by its number,     *)
(* which is its text; a reply names the utterance it is about.              *)
(***************************************************************************)
\* nothing has failed during start()
NoFailure == [join |-> FALSE, screen_share |-> FALSE, audio_device |-> FALSE]

NoJob == [frame |-> NoFrame, query |-> "", context |-> <<>>]

\* the text of utterance n, and the utterance a text belongs to
UtteranceText(n) == ToString(n)
UtteranceOf(text) == CHOOSE n \in 1..MaxUtterances : UtteranceText(n) = text

\* orchestrator.py:49-76  start() has returned and the handlers wait
SessionStarted ==
    /\ _running = TRUE
    /\ stop_pc = "none"
    /\ h_user_pc = "get"
    /\ h_ai_pc = "get"
    /\ h_screen_pc = "get"
    /\ q_user_spoke = <<>>
    /\ q_ai_response = <<>>
    /\ messages = <<>>
    /\ processing_query = FALSE
    /\ last_transcription = None
    /\ h_user_job = NoJob
    /\ g_utter = <<>>
    /\ g_released = <<>>
    /\ start_pc = "returned"
    /\ attempt = 0
    /\ meet_controller = "joined"
    /\ audio_capture = "capturing"
    /\ audio = "PyAudio"
    /\ stream = "Stream"
    /\ ready = <<>>
    /\ qt_integration = "running"
    /\ g_start = NoFailure

max_context_messages == 10      \* config.py:34

\* append on a deque(maxlen=max_context_messages)  (context_manager.py:13)
add_message(role, content) ==
    LET message == [role |-> role, content |-> content]
    IN  IF Len(messages) = max_context_messages
        THEN Append(Tail(messages), message)
        ELSE Append(messages, message)

\* a handler that serves one event and ends
NextTurn_once == "done"

\* the test of 'while self._running' when a handler comes round its loop
NextTurn == IF _running THEN "get" ELSE "done"

NoFate == [running |-> FALSE, taken |-> FALSE, had_frame |-> FALSE,
           inferred |-> FALSE, latest |-> FALSE, in_context |-> FALSE,
           failed |-> FALSE, replies |-> 0, synthesized |-> FALSE]

\* orchestrator.py:303-306  Orchestrator._on_transcription: the audio
\* manager hands over the text of the next utterance
OnTranscription ==
    LET text == UtteranceText(Len(g_utter) + 1)
    IN  /\ Len(g_utter) < MaxUtterances
        /\ last_transcription' = text
        /\ q_user_spoke' =
              Append(q_user_spoke, [type |-> "user_spoke", data |-> text])
        /\ g_utter' = Append(g_utter, [NoFate EXCEPT !.running = _running])
        /\ UNCHANGED <<_running, stop_pc, h_user_pc, h_ai_pc, h_screen_pc,
                       q_ai_response, messages, processing_query, h_user_job,
                       g_released>>
        /\ UNCHANGED <<audio_vars, ghost_vars, cap_vars, bus_vars,
                       overlay_vars, start_vars, side_vars>>

\* set_processing losing its write
set_processing_ignored(processing) == UNCHANGED processing_query

\* state_manager.py:103-111  StateManager.set_processing
set_processing(processing) == processing_query' = processing

\* orchestrator.py:183-200  _handle_user_speech takes the next event and
\* runs up to the await of analyze_frame, or round the loop when the
\* session state holds no screen
UserSpeechTake ==
    LET text    == Head(q_user_spoke).data
        context == add_message("user", text)
        screen  == current_screen
    IN  /\ h_user_pc = "get"
        /\ q_user_spoke # <<>>
        /\ q_user_spoke' = Tail(q_user_spoke)
        /\ messages' = context
        /\ IF screen # NoFrame
           THEN /\ set_processing(TRUE)
                /\ h_user_job' = [frame |-> screen, query |-> text,
                                  context |-> context]
                /\ h_user_pc' = "analyze"
           ELSE /\ UNCHANGED <<processing_query, h_user_job>>
                /\ h_user_pc' = NextTurn
        /\ g_utter' = [g_utter EXCEPT ![UtteranceOf(text)] =
              [@ EXCEPT !.taken = TRUE,
                        !.had_frame = current_screen # NoFrame,
                        !.inferred = h_user_pc' = "analyze",
                        !.latest = /\ h_user_pc' = "analyze"
                                   /\ h_user_job'.frame = current_screen,
                        !.in_context =
                            /\ h_user_pc' = "analyze"
                            /\ h_user_job'.context = messages'
                            /\ [role |-> "user", content |-> text]
                                  \in Range(messages')]]
        /\ UNCHANGED <<_running, stop_pc, h_ai_pc, h_screen_pc, q_ai_response,
                       last_transcription, g_released>>
        /\ UNCHANGED <<audio_vars, ghost_vars, cap_vars, bus_vars,
                       overlay_vars, start_vars, side_vars>>

\* what can become of one inference: an answer, a failure of the API call
\* inside ClaudeClient.analyze_screen, or a failure of the JPEG encoding
\* inside VisionAnalyzer.analyze_frame
AnalyzeOutcomes == {"answer", "api_error", "encode_error"}

Answer == "answer"
FallbackTexts == {"I'm having trouble analyzing the screen right now.",
                  "I couldn't analyze that screen."}

\* claude_client.py:40-91  ClaudeClient.analyze_screen; the reply never
\* carries annotations (claude_client.py:118-121).  'about' names the
\* utterance answered and is read by the history variables only.
analyze_screen(outcome, user_query) ==
    IF outcome = "api_error"
    THEN [text        |-> "I'm having trouble analyzing the screen right now.",
          annotations |-> <<>>, about |-> user_query]
    ELSE [text |-> Answer, annotations |-> <<>>, about |-> user_query]

\* analyze_frame passing the failure on in place of a fallback reply
analyze_frame_no_fallback(outcome, query) ==
    IF outcome # "answer"
    THEN [text |-> "error", annotations |-> <<>>, about |-> query]
    ELSE analyze_screen(outcome, query)

\* vision_analyzer.py:36-56  VisionAnalyzer.analyze_frame
analyze_frame(outcome, query) ==
    IF outcome = "encode_error"
    THEN [text |-> "I couldn't analyze that screen.",
          annotations |-> <<>>, about |-> query]
    ELSE analyze_screen(outcome, query)

\* orchestrator.py:196-205  analyze_frame returns (it turns every failure
\* into a reply, vision_analyzer.py:50-55): the reply is published and the
\* processing flag cleared
AnalyzeReturns(outcome) ==
    LET result == analyze_frame(outcome, h_user_job.query)
    IN  /\ h_user_pc = "analyze"
        /\ q_ai_response' =
              Append(q_ai_response, [type |-> "ai_response", data |-> result])
        /\ set_processing(FALSE)
        /\ h_user_pc' = NextTurn
        /\ g_utter' = [g_utter EXCEPT ![UtteranceOf(h_user_job.query)] =
              [@ EXCEPT !.replies = @ + 1, !.failed = outcome # "answer"]]
        /\ UNCHANGED <<_running, stop_pc, h_ai_pc, h_screen_pc, q_user_spoke,
                       messages, last_transcription, h_user_job, g_released>>
        /\ UNCHANGED <<audio_vars, ghost_vars, cap_vars, bus_vars,
                       overlay_vars, start_vars, side_vars>>

\* orchestrator.py:215-226  _handle_ai_responses takes the next reply and
\* runs into synthesize_and_play up to the await of tts.synthesize
AiResponseTake ==
    LET result        == Head(q_ai_response).data
        response_text == result.text
        about         == result.about
    IN  /\ h_ai_pc = "get"
        /\ q_ai_response # <<>>
        /\ q_ai_response' = Tail(q_ai_response)
        /\ messages' = add_message("assistant", response_text)
        /\ synthesize_and_play_begin
        /\ h_ai_pc' = "synth"
        /\ g_utter' = [g_utter EXCEPT ![UtteranceOf(about)].synthesized = TRUE]
        /\ UNCHANGED <<_running, stop_pc, h_user_pc, h_screen_pc,
                       q_user_spoke, processing_query, last_transcription,
                       h_user_job, g_released>>
        /\ UNCHANGED <<cap_vars, bus_vars, overlay_vars, start_vars, side_vars>>

\* orchestrator.py:226-238  synthesize_and_play has returned; the reply has
\* no annotations (claude_client.py:118-121), so the handler comes round
AiSynthReturns ==
    /\ h_ai_pc = "synth"
    /\ synth_pc = "idle"
    /\ h_ai_pc' = NextTurn
    /\ UNCHANGED <<_running, stop_pc, h_user_pc, h_screen_pc, q_user_spoke,
                   q_ai_response, messages, processing_query,
                   last_transcription, h_user_job, g_utter, g_released>>
    /\ UNCHANGED <<audio_vars, ghost_vars, cap_vars, bus_vars, overlay_vars>>
    /\ UNCHANGED <<start_vars, side_vars>>

(***************************************************************************)
(* Orchestrator.stop (orchestrator.py:364-394), one action per stretch     *)
(* between its awaits that suspend.  g_released records what it stops or   *)
(* releases, in the order it does so.                                      *)
(***************************************************************************)
\* the capture loop's task is in _tasks (orchestrator.py:258-260)
CaptureTaskExists == cap_pc \in {"capture", "sleep", "done"}

\* orchestrator.py:368-376  _running is cleared and every task of _tasks is
\* cancelled and awaited: that is the capture loop, when there is one
StopTasks ==
    /\ stop_pc = "none"
    \* stop() is called by start() when it fails (orchestrator.py:75), or
    \* by the caller of start() once start() has returned
    /\ start_pc \in {"failed", "returned"}
    /\ _running' = FALSE
    /\ IF CaptureTaskExists
       THEN /\ cap_pc' = IF cap_pc = "done" THEN "done" ELSE "cancelled"
            /\ g_released' = Append(g_released, "capture_loop")
       ELSE UNCHANGED <<cap_pc, g_released>>
    /\ stop_pc' = "tasks_done"
    /\ UNCHANGED <<h_user_pc, h_ai_pc, h_screen_pc, q_user_spoke,
                   q_ai_response, messages, processing_query,
                   last_transcription, h_user_job, g_utter>>
    /\ UNCHANGED <<region, last_frame, frames, current_frame_number,
                   current_screen, screen_changed, q_screen_changed,
                   g_reference, g_cap, g_added, g_cleared>>
    /\ UNCHANGED cap_time_vars
    /\ UNCHANGED <<audio_vars, ghost_vars, bus_vars, overlay_vars>>
    /\ UNCHANGED <<start_vars, side_vars>>

\* audio_capture.py:106-107  stop_capture goes on to release the stream
\* and PyAudio only when is_capturing is set
stop_capture_releases(is_capturing) == is_capturing

\* audio_capture.py:104-126  what a call of stop_capture does to the
\* AudioCapture: nothing unless is_capturing; otherwise the stream is
\* stopped and closed, PyAudio is terminated and both references are reset
stop_capture_call ==
    IF stop_capture_releases(audio_capture = "capturing")
    THEN /\ audio_capture' = "stopped"
         /\ audio' = None
         /\ stream' = None
    ELSE UNCHANGED <<audio_capture, mic_vars>>

\* how far _start_microphone_capture gets: PyAudio() raises, open() raises,
\* start_stream() raises, or the stream is started
MicOutcomes == {"no_pyaudio", "no_stream", "no_start", "started"}

\* audio_capture.py:51-73  AudioCapture._start_microphone_capture.  On a
\* failure is_capturing is still False when the except clause calls
\* stop_capture (line 66 was not reached), and the error is raised again.
_start_microphone_capture(mic) ==
    LET released == mic # "started" /\ stop_capture_releases(FALSE)
    IN  /\ audio' = IF mic = "no_pyaudio" \/ released
                    THEN None ELSE "PyAudio"
        /\ stream' = IF mic \in {"no_pyaudio", "no_stream"} \/ released
                     THEN None ELSE "Stream"
        /\ audio_capture' = IF mic = "started" THEN "capturing" ELSE "failed"

\* orchestrator.py:378-383  the audio capture is stopped, then the cleanup
\* sweep is cancelled and awaited (annotation_manager.py:90-100), each when
\* the component exists; the annotation manager exists with the Qt thread
StopAudioAndSweep ==
    /\ stop_pc = "tasks_done"
    /\ IF audio_capture # None
       THEN stop_capture_call
       ELSE UNCHANGED <<audio_capture, mic_vars>>
    /\ _cleanup_task' = None
    /\ g_released' = g_released
          \o (IF audio_capture # None THEN <<"audio_capture">> ELSE <<>>)
          \o (IF qt_integration # None THEN <<"annotation_sweep">> ELSE <<>>)
    /\ stop_pc' = "sweep_done"
    /\ UNCHANGED <<_running, h_user_pc, h_ai_pc, h_screen_pc, q_user_spoke,
                   q_ai_response, messages, processing_query,
                   last_transcription, h_user_job, g_utter>>
    /\ UNCHANGED <<annotations, active_annotations, sweep_wake_at, g_shown,
                   g_annotated>>
    /\ UNCHANGED <<audio_vars, ghost_vars, cap_vars, bus_vars>>
    /\ UNCHANGED <<start_pc, attempt, meet_controller, qt_integration,
                   g_start, ready, side_vars>>

\* orchestrator.py:385-389  the overlay is stopped and the cleanup of the
\* call session is awaited
StopOverlayAndCall ==
    /\ stop_pc = "sweep_done"
    /\ qt_integration' = IF qt_integration # None THEN "stopped" ELSE None
    /\ meet_controller' = IF meet_controller # None THEN "cleaned" ELSE None
    /\ g_released' = g_released
          \o (IF qt_integration # None THEN <<"overlay">> ELSE <<>>)
          \o (IF meet_controller # None THEN <<"call_session">> ELSE <<>>)
    /\ stop_pc' = "call_done"
    /\ UNCHANGED <<_running, h_user_pc, h_ai_pc, h_screen_pc, q_user_spoke,
                   q_ai_response, messages, processing_query,
                   last_transcription, h_user_job, g_utter>>
    /\ UNCHANGED <<audio_vars, ghost_vars, cap_vars, bus_vars, overlay_vars>>
    /\ UNCHANGED <<start_pc, attempt, audio_capture, g_start, mic_vars,
                   ready, side_vars>>

\* orchestrator.py:391-394  the capturer is cleaned up, when there is one,
\* and stop() returns
StopReturns ==
    /\ stop_pc = "call_done"
    /\ g_released' = IF region # NoRegion
                     THEN Append(g_released, "screen_capturer")
                     ELSE g_released
    /\ stop_pc' = "returned"
    \* orchestrator.py:75-76  a start() that failed raises again
    /\ start_pc' = IF start_pc = "failed" THEN "raised" ELSE start_pc
    /\ UNCHANGED <<_running, h_user_pc, h_ai_pc, h_screen_pc, q_user_spoke,
                   q_ai_response, messages, processing_query,
                   last_transcription, h_user_job, g_utter>>
    /\ UNCHANGED <<audio_vars, ghost_vars, cap_vars, bus_vars, overlay_vars>>
    /\ UNCHANGED <<attempt, meet_controller, audio_capture, qt_integration,
                   g_start, mic_vars, ready, side_vars>>

(***************************************************************************)
(* Direct calls on the frame buffer (capture/frame_buffer.py).  Each call  *)
(* holds the buffer's lock and does not suspend inside it.                 *)
(***************************************************************************)
AddFrame(frame_data, changed) ==
    /\ current_frame_number < MaxAdds
    /\ add_frame(frame_data, changed)
    /\ UNCHANGED <<region, last_frame, current_screen, screen_changed, cap_pc,
                   q_screen_changed, g_reference, g_cap, g_cleared>>
    /\ UNCHANGED cap_time_vars
    /\ UNCHANGED non_cap_vars

MarkFrameProcessed(frame_number) ==
    /\ mark_frame_processed(frame_number)
    /\ UNCHANGED <<region, last_frame, current_frame_number, current_screen,
                   screen_changed, cap_pc, q_screen_changed, g_reference,
                   g_cap, g_added, g_cleared>>
    /\ UNCHANGED cap_time_vars
    /\ UNCHANGED non_cap_vars

ClearBuffer ==
    /\ FrameBuffer_clear_buffer
    /\ UNCHANGED <<region, last_frame, current_frame_number, current_screen,
                   screen_changed, cap_pc, q_screen_changed, g_reference,
                   g_cap, g_added>>
    /\ UNCHANGED cap_time_vars
    /\ UNCHANGED non_cap_vars

(***************************************************************************)
(* Orchestrator.start (orchestrator.py:49-161, 253-271, 313-328), one      *)
(* action per stretch between its awaits that suspend.  Opening the audio  *)
(* device (audio_capture.py:29-73) does not suspend, so the handlers and   *)
(* the capture loop created by start() first run after _running is set.    *)
(***************************************************************************)
max_attempts == 30      \* orchestrator.py:150

\* orchestrator.py:25-47  Orchestrator.__init__, with the overlay and the
\* session state as their constructors leave them
Constructed ==
    /\ _running = FALSE
    /\ stop_pc = "none"
    /\ h_user_pc = "none"
    /\ h_ai_pc = "none"
    /\ h_screen_pc = "none"
    /\ q_user_spoke = <<>>
    /\ q_ai_response = <<>>
    /\ messages = <<>>
    /\ processing_query = FALSE
    /\ last_transcription = None
    /\ h_user_job = NoJob
    /\ g_utter = <<>>
    /\ g_released = <<>>
    /\ start_pc = "none"
    /\ attempt = 0
    /\ meet_controller = None
    /\ audio_capture = None
    /\ audio = None
    /\ stream = None
    /\ ready = <<>>
    /\ qt_integration = None
    /\ g_start = NoFailure
    /\ annotations = <<>>
    /\ active_annotations = <<>>
    /\ sweep_wake_at = 0
    /\ g_shown = {}
    /\ g_annotated = 0
    /\ _cleanup_task = None

\* what start() leaves alone
StartAudioFrame == <<is_listening, audio_buffer, silence_counter,
                     _processing_buffer, _last_transcription,
                     _last_transcription_time, _is_speaking, tasks, synth_pc,
                     now>>
StartCapFrame == <<last_frame, frames, current_frame_number, current_screen,
                   screen_changed, q_screen_changed, g_reference, g_cap,
                   g_added, g_cleared, cap_time_vars>>
StartOrchFrame == <<stop_pc, q_user_spoke, q_ai_response, messages,
                    processing_query, last_transcription, h_user_job, g_utter,
                    g_released>>
StartOverlayFrame == <<annotations, active_annotations, g_shown, g_annotated>>
StartSideFrame == <<_lock, st_call, g_committed, g_read, bridge_vars,
                    detected>>

\* start() going on whatever join_meeting returned
join_refused_ignored(success) == FALSE

\* orchestrator.py:86  'if not success: raise Exception(...)'
join_refused(success) == ~success

\* orchestrator.py:60-62, 83-85  start() is called and awaits join_meeting
StartCalled ==
    /\ start_pc = "none"
    /\ start_pc' = "join"
    /\ meet_controller' = "joining"
    /\ UNCHANGED <<attempt, audio_capture, qt_integration, g_start,
                   mic_vars, ready>>
    /\ UNCHANGED <<audio_vars, ghost_vars, cap_vars, bus_vars, overlay_vars,
                   orch_vars, side_vars>>

\* orchestrator.py:85-107, 73-75  join_meeting returns: True, or False
\* after cleaning up what it had opened (meet_controller.py:82-89).  A
\* refusal is raised and caught by start(), which calls stop().
JoinReturns(success) ==
    /\ start_pc = "join"
    /\ meet_controller' = IF success THEN "joined" ELSE "cleaned"
    /\ g_start' = [g_start EXCEPT !.join = ~success]
    /\ IF join_refused(success)
       THEN /\ start_pc' = "failed"
            /\ UNCHANGED meeting_vars
       ELSE /\ start_pc' = "wait_share"
            \* orchestrator.py:89  set_meeting_state(in_meeting=True)
            /\ is_in_meeting' = TRUE
            /\ screen_share_active' = FALSE
    /\ UNCHANGED <<attempt, audio_capture, qt_integration, mic_vars, ready>>
    /\ UNCHANGED <<audio_vars, ghost_vars, cap_vars, bus_vars, overlay_vars,
                   orch_vars, StartSideFrame>>

\* a loop that runs the newest task first
create_task_lifo(queue, task) == <<task>> \o queue

\* orchestrator.py:167-173, 259  asyncio.create_task: the first step of the
\* task is appended to the ready queue of the loop, and the task does not
\* run before the creator suspends
create_task(queue, task) == Append(queue, task)

\* orchestrator.py:65-70, 163-176, 253-271, 313-328  the rest of start()
\* after the components are initialised: the handler tasks are created, the
\* capture loop when there is a capturer, the audio callbacks are set, the
\* audio device is opened, and _running is set.  A failure to open the
\* device is caught by _start_audio_capture (orchestrator.py:326-328).
FinishStart(has_capturer, audio_ok) ==
    /\ h_user_pc' = "created"
    /\ h_ai_pc' = "created"
    /\ h_screen_pc' = "created"
    /\ cap_pc' = IF has_capturer THEN "capture" ELSE "off"
    /\ ready' = LET handlers == create_task(create_task(create_task(ready,
                                    "user_speech"), "ai_responses"),
                                    "screen_changes")
                IN  IF has_capturer
                    THEN create_task(handlers, "capture_loop")
                    ELSE handlers
    /\ on_transcription_callback' = TRUE
    /\ \E mic \in MicOutcomes :
          /\ audio_ok <=> mic = "started"
          /\ _start_microphone_capture(mic)
    /\ _running' = TRUE
    /\ start_pc' = "returned"

\* a wait that makes one more turn than max_attempts
wait_ends_one_late(found, polls) == found \/ polls = max_attempts + 1

\* orchestrator.py:152-161  _wait_for_screen_share returns after a poll
\* that found the share ('return bounds') or that was the last turn of
\* 'for attempt in range(max_attempts)'
wait_ends(found, polls) == found \/ polls = max_attempts

\* orchestrator.py:150-161, 109-137  one turn of _wait_for_screen_share
\* after its sleep: the share is found, or not; after the last turn the
\* wait gives up with None and start() goes on.  On macOS there is no
\* overlay and start() runs to its end; elsewhere the Qt thread is started
\* and start() sleeps.
ShareAttempt(found, bounds, darwin, audio_ok) ==
    LET settled == wait_ends(found, attempt + 1)
    IN  /\ start_pc = "wait_share"
        /\ attempt' = attempt + 1
        /\ IF ~settled
           THEN UNCHANGED <<start_pc, region, cap_pc, meeting_vars,
                            qt_integration, audio_capture, mic_vars, ready,
                            g_start, _running,
                            h_user_pc, h_ai_pc, h_screen_pc,
                            on_transcription_callback>>
           ELSE /\ region' = IF found THEN bounds ELSE NoRegion
                /\ is_in_meeting' = TRUE
                /\ screen_share_active' = found
                /\ g_start' = [g_start EXCEPT
                                  !.screen_share = ~found,
                                  !.audio_device = darwin /\ ~audio_ok]
                /\ IF darwin
                   THEN /\ qt_integration' = None
                        /\ FinishStart(found, audio_ok)
                   ELSE /\ qt_integration' = "running"
                        /\ start_pc' = "qt_wait"
                        /\ UNCHANGED <<cap_pc, audio_capture, mic_vars,
                                       ready, _running,
                                       h_user_pc, h_ai_pc, h_screen_pc,
                                       on_transcription_callback>>
        /\ UNCHANGED meet_controller
        /\ UNCHANGED <<StartAudioFrame, ghost_vars, StartCapFrame, bus_vars,
                       overlay_vars, StartOrchFrame, StartSideFrame>>

\* orchestrator.py:140-148  the sleep ends; the cleanup sweep is started
\* when the Qt thread has made an overlay, and start() runs to its end
QtReady(overlay, audio_ok) ==
    /\ start_pc = "qt_wait"
    /\ _cleanup_task' = IF overlay THEN "sleeping" ELSE None
    /\ sweep_wake_at' = IF overlay THEN now + sweep_period ELSE sweep_wake_at
    /\ FinishStart(region # NoRegion, audio_ok)
    /\ g_start' = [g_start EXCEPT !.audio_device = ~audio_ok]
    /\ UNCHANGED <<attempt, meet_controller, qt_integration, region,
                   meeting_vars>>
    /\ UNCHANGED <<StartAudioFrame, ghost_vars, StartCapFrame, bus_vars,
                   StartOverlayFrame, StartOrchFrame, StartSideFrame>>

(***************************************************************************)
(* StateManager (core/state_manager.py).  Every method is                  *)
(* 'async with self._lock:' around one or two statements.  Each statement  *)
(* is a step of its own here, the finest interleaving any scheduler could  *)
(* produce, so that it is the lock that is shown to protect the fields.    *)
(***************************************************************************)
Callers == {"capture", "startup", "reader"}

\* the methods each caller uses (orchestrator.py:89, 113, 192, 248, 290)
MethodsOf(c) ==
    IF c = "capture" THEN {"update_screen", "mark_screen_processed"}
    ELSE IF c = "startup" THEN {"set_meeting_state"}
    ELSE {"get_current_screen", "get_state_summary"}

Writes == {"update_screen", "mark_screen_processed", "set_meeting_state"}

\* what a read has collected so far
NothingSeen == [screen |-> NoFrame, has_screen |-> FALSE,
                screen_changed |-> FALSE, in_meeting |-> FALSE,
                screen_share_active |-> FALSE]

NoCall == [method |-> "none", pc |-> "idle", screen |-> NoFrame,
           in_meeting |-> FALSE, screen_share |-> FALSE,
           seen |-> NothingSeen]

NoRead == [method |-> "none", seen |-> NothingSeen,
           committed |-> NothingSeen]

\* state_manager.py:17-18, 32-33  the fields the claims are about
Fields == [current_screen |-> current_screen,
           screen_changed |-> screen_changed,
           is_in_meeting |-> is_in_meeting,
           screen_share_active |-> screen_share_active]

\* state_manager.py:55-56, 152-163  what a read of the given fields returns
Returned(method, f) ==
    IF method = "get_current_screen"
    THEN [NothingSeen EXCEPT !.screen = f.current_screen]
    ELSE [NothingSeen EXCEPT !.has_screen = f.current_screen # NoFrame,
                             !.screen_changed = f.screen_changed,
                             !.in_meeting = f.is_in_meeting,
                             !.screen_share_active = f.screen_share_active]

\* state_manager.py:14  StateManager.__init__ with no call under way
StateIdle ==
    /\ _lock = FALSE
    /\ st_call = [c \in Callers |-> NoCall]
    /\ g_committed = Fields
    /\ g_read = NoRead

\* a lock that lets every caller in
lock_is_free_unchecked == TRUE

\* asyncio.Lock.acquire: the lock is taken when nobody holds it
lock_is_free == ~_lock

StateCapFrame == <<region, last_frame, frames, current_frame_number, cap_pc,
                   q_screen_changed, g_reference, g_cap, g_added, g_cleared,
                   cap_time_vars>>
StateFrame == <<audio_vars, ghost_vars, StateCapFrame, bus_vars, overlay_vars,
                orch_vars, start_vars, bridge_vars, detected>>

\* a task calls a method with the arguments the method takes and reaches
\* 'async with self._lock'
StateCall(c, method, screen, in_meeting, screen_share) ==
    /\ st_call[c].pc = "idle"
    /\ method \in MethodsOf(c)
    /\ st_call' = [st_call EXCEPT ![c] =
          IF method = "update_screen"
          THEN [NoCall EXCEPT !.method = method, !.pc = "acquire",
                              !.screen = screen]
          ELSE IF method = "set_meeting_state"
          THEN [NoCall EXCEPT !.method = method, !.pc = "acquire",
                              !.in_meeting = in_meeting,
                              !.screen_share = screen_share]
          ELSE [NoCall EXCEPT !.method = method, !.pc = "acquire"]]
    /\ UNCHANGED <<current_screen, screen_changed, meeting_vars, _lock,
                   g_committed, g_read>>
    /\ UNCHANGED StateFrame

\* state_manager.py:44, 55, 60, 141, 152  'async with self._lock' is entered
StateAcquire(c) ==
    /\ st_call[c].pc = "acquire"
    /\ lock_is_free
    /\ _lock' = TRUE
    /\ st_call' = [st_call EXCEPT ![c].pc = "first"]
    /\ UNCHANGED <<current_screen, screen_changed, meeting_vars, g_committed,
                   g_read>>
    /\ UNCHANGED StateFrame

\* one statement of the body of the method the caller is inside
StateStep(c) ==
    LET call == st_call[c]
        first == call.pc = "first"
        go(pc) == [st_call EXCEPT ![c].pc = pc]
    IN  /\ call.pc \in {"first", "second"}
        /\ CASE call.method = "update_screen" ->
                  \* state_manager.py:45-46
                  /\ current_screen' = IF first THEN call.screen
                                       ELSE current_screen
                  /\ screen_changed' = IF first THEN screen_changed ELSE TRUE
                  /\ st_call' = go(IF first THEN "second" ELSE "release")
                  /\ UNCHANGED meeting_vars
             [] call.method = "mark_screen_processed" ->
                  \* state_manager.py:61
                  /\ screen_changed' = FALSE
                  /\ st_call' = go("release")
                  /\ UNCHANGED <<current_screen, meeting_vars>>
             [] call.method = "set_meeting_state" ->
                  \* state_manager.py:142-143
                  /\ is_in_meeting' = IF first THEN call.in_meeting
                                      ELSE is_in_meeting
                  /\ screen_share_active' = IF first THEN screen_share_active
                                            ELSE call.screen_share
                  /\ st_call' = go(IF first THEN "second" ELSE "release")
                  /\ UNCHANGED <<current_screen, screen_changed>>
             [] call.method = "get_current_screen" ->
                  \* state_manager.py:56
                  /\ st_call' = [st_call EXCEPT
                                    ![c].pc = "release",
                                    ![c].seen.screen = current_screen]
                  /\ UNCHANGED <<current_screen, screen_changed,
                                 meeting_vars>>
             [] call.method = "get_state_summary" ->
                  \* state_manager.py:153-163  the entries of the dict, in
                  \* the order they are evaluated
                  /\ st_call' =
                        IF first
                        THEN [st_call EXCEPT
                                 ![c].pc = "second",
                                 ![c].seen.has_screen =
                                     current_screen # NoFrame,
                                 ![c].seen.screen_changed = screen_changed]
                        ELSE [st_call EXCEPT
                                 ![c].pc = "release",
                                 ![c].seen.in_meeting = is_in_meeting,
                                 ![c].seen.screen_share_active =
                                     screen_share_active]
                  /\ UNCHANGED <<current_screen, screen_changed,
                                 meeting_vars>>
        /\ UNCHANGED <<_lock, g_committed, g_read>>
        /\ UNCHANGED StateFrame

\* the 'async with' block is left: the lock is released and the call
\* returns.  A write is complete here, and a read returns what it collected.
StateRelease(c) ==
    LET call == st_call[c]
    IN  /\ call.pc = "release"
        /\ _lock' = FALSE
        /\ st_call' = [st_call EXCEPT ![c] = NoCall]
        /\ g_committed' = IF call.method \in Writes THEN Fields
                          ELSE g_committed
        /\ g_read' = IF call.method \in Writes THEN g_read
                     ELSE [method |-> call.method, seen |-> call.seen,
                           committed |-> Returned(call.method, g_committed)]
        /\ UNCHANGED <<current_screen, screen_changed, meeting_vars>>
        /\ UNCHANGED StateFrame

(***************************************************************************)
(* The bridge from the audio thread to the event loop                      *)
(* (audio_capture.py:75-96, orchestrator.py:313-333).                      *)
(***************************************************************************)
MaxChunks == 4      \* chunks given to the audio callback

\* the chunks the audio thread delivers: 20 ms each
BridgeChunks == {chunk \in Chunks : chunk.bytes = 640}

BridgeIdle ==
    /\ run_queue = <<>>
    /\ g_produced = 0
    /\ g_handed = <<>>
    /\ g_begun = <<>>

\* a bridge that runs the newest scheduled call first
run_coroutine_threadsafe_lifo(queue, call) == <<call>> \o queue

\* asyncio.run_coroutine_threadsafe: loop.call_soon_threadsafe appends to
\* the ready queue of the loop
run_coroutine_threadsafe(queue, call) == Append(queue, call)

\* audio_capture.py:75-88  AudioCapture._audio_callback on the audio thread.
\* on_audio_chunk and _event_loop are set by start_capture before the
\* stream exists and never cleared; the loop is running.
_audio_callback(in_data) ==
    LET call == [n |-> g_produced + 1, chunk |-> in_data]
    IN  /\ g_produced < MaxChunks
        /\ g_produced' = g_produced + 1
        /\ IF audio_capture = "capturing"
           THEN /\ run_queue' = run_coroutine_threadsafe(run_queue, call)
                /\ g_handed' = Append(g_handed, call.n)
           ELSE UNCHANGED <<run_queue, g_handed>>
        /\ UNCHANGED g_begun
        /\ UNCHANGED <<audio_vars, ghost_vars, cap_vars, bus_vars,
                       overlay_vars, orch_vars, start_vars, state_vars,
                       detected>>

\* audio_capture.py:90-96, orchestrator.py:330-333  the loop runs the oldest
\* scheduled _process_chunk, which calls process_audio_chunk at once
_process_chunk ==
    /\ run_queue # <<>>
    /\ run_queue' = Tail(run_queue)
    /\ g_begun' = Append(g_begun, Head(run_queue).n)
    /\ process_audio_chunk(Head(run_queue).chunk)
    /\ UNCHANGED <<g_produced, g_handed>>

\* audio_capture.py:104-126  AudioCapture.stop_capture
stop_capture ==
    /\ audio_capture = "capturing"
    /\ stop_capture_call
    /\ UNCHANGED <<start_pc, attempt, meet_controller, qt_integration,
                   g_start, ready>>
    /\ UNCHANGED <<audio_vars, ghost_vars, cap_vars, bus_vars, overlay_vars,
                   orch_vars, side_vars>>

(***************************************************************************)
(* The event loop after start() has returned.  The tasks start() created   *)
(* run when its caller next suspends, oldest first; the audio thread hands *)
(* chunks to the loop from then on.  stop() suspends at its awaits, so the  *)
(* ready tasks also run while stop() is under way.                         *)
(***************************************************************************)
HandlerTasks == {"user_speech", "ai_responses", "screen_changes"}

\* orchestrator.py:180, 212, 242  the type each handler subscribes for
handler_event_type(task) ==
    CASE task = "user_speech" -> "user_spoke"
      [] task = "ai_responses" -> "ai_response"
      [] task = "screen_changes" -> "screen_changed"

\* a publish call made by a task of the session, recorded like a direct one
SessionPublish(event_type) ==
    /\ publish(event_type, publish_calls + 1)
    /\ g_published' = Append(g_published, event_type)
    /\ UNCHANGED <<g_last_taken, g_asked, g_registered, g_created_at>>

LoopOrchFrame == <<_running, stop_pc, q_user_spoke, q_ai_response, messages,
                   processing_query, last_transcription, h_user_job, g_utter,
                   g_released>>
LoopStartFrame == <<start_pc, attempt, meet_controller, audio_capture,
                    qt_integration, g_start, mic_vars>>
LoopCapFrame == <<region, last_frame, frames, current_frame_number,
                  current_screen, screen_changed, q_screen_changed,
                  g_reference, g_cap, g_added, g_cleared, cap_time_vars>>

\* orchestrator.py:178-183, 210-215, 240-245  the first step of a handler
\* task: it subscribes, tests _running and waits at queue.get(), or ends
HandlerFirstRun ==
    LET task == Head(ready)
        queue == Len(queues) + 1
        event_types == <<handler_event_type(task)>>
        pc == IF _running THEN "get" ELSE "done"
    IN  /\ ready # <<>>
        /\ task \in HandlerTasks
        /\ ready' = Tail(ready)
        /\ subscribe(event_types)
        /\ g_last_taken' = Append(g_last_taken, 0)
        /\ g_asked' = g_asked \cup {<<queue, t>> : t \in Range(event_types)}
        /\ g_registered' =
              g_registered \cup {<<queue, t>> : t \in Range(event_types)}
        /\ g_created_at' = Append(g_created_at, publish_calls)
        /\ UNCHANGED g_published
        /\ h_user_pc' = IF task = "user_speech" THEN pc ELSE h_user_pc
        /\ h_ai_pc' = IF task = "ai_responses" THEN pc ELSE h_ai_pc
        /\ h_screen_pc' = IF task = "screen_changes" THEN pc ELSE h_screen_pc
        /\ UNCHANGED <<LoopOrchFrame, LoopStartFrame>>
        /\ UNCHANGED <<audio_vars, ghost_vars, cap_vars, overlay_vars,
                       side_vars>>

\* orchestrator.py:273-301  a turn of the capture loop's task: cancelled
\* before it ran, or _running found cleared, it ends; otherwise it captures
\* and, when the frame counts as changed, publishes 'screen_changed', and
\* its wake-up after the sleep is queued behind what is ready by then.
\* What the turn does to the capturer is the subject of CaptureAttempt.
CaptureLoopRuns(changed) ==
    /\ ready # <<>>
    /\ Head(ready) = "capture_loop"
    /\ IF cap_pc = "cancelled" \/ ~_running
       THEN /\ cap_pc' = IF cap_pc = "cancelled" THEN "cancelled" ELSE "done"
            /\ ready' = Tail(ready)
            /\ UNCHANGED bus_vars
       ELSE /\ publish_calls < MaxPublish
            /\ IF changed
               THEN SessionPublish("screen_changed")
               ELSE UNCHANGED bus_vars
            /\ ready' = Append(Tail(ready), "capture_loop")
            /\ UNCHANGED cap_pc
    /\ UNCHANGED <<h_user_pc, h_ai_pc, h_screen_pc, LoopOrchFrame,
                   LoopStartFrame, LoopCapFrame>>
    /\ UNCHANGED <<audio_vars, ghost_vars, overlay_vars, side_vars>>

\* audio_capture.py:75-88  the audio thread hands a chunk to the loop
AudioThreadSchedules ==
    /\ start_pc = "returned"
    /\ audio_capture = "capturing"
    /\ g_produced < MaxChunks
    /\ g_produced' = g_produced + 1
    /\ ready' = run_coroutine_threadsafe(ready, "chunk")
    /\ UNCHANGED <<run_queue, g_handed, g_begun, state_vars, detected>>
    /\ UNCHANGED <<LoopStartFrame, orch_vars>>
    /\ UNCHANGED <<audio_vars, ghost_vars, cap_vars, bus_vars, overlay_vars>>

\* audio_capture.py:90-96, orchestrator.py:303-306, 330-333  the loop runs
\* a scheduled _process_chunk.  utterance: the chunk is the one whose
\* processing ends, at the earliest possible moment, in a transcription
\* handed to _on_transcription, which publishes 'user_spoke'.  What the
\* chunk does to the segmenter is the subject of process_audio_chunk.
ChunkRuns(utterance) ==
    /\ ready # <<>>
    /\ Head(ready) = "chunk"
    /\ ready' = Tail(ready)
    /\ IF utterance /\ on_transcription_callback /\ publish_calls < MaxPublish
       THEN SessionPublish("user_spoke")
       ELSE UNCHANGED bus_vars
    /\ UNCHANGED <<LoopStartFrame, orch_vars>>
    /\ UNCHANGED <<audio_vars, ghost_vars, cap_vars, overlay_vars, side_vars>>

(***************************************************************************)
(* Direct calls on a ScreenCapturer (capture/screen_capturer.py).          *)
(***************************************************************************)
NoDetection == [current_frame |-> NoFrame, last |-> NoFrame,
                threshold |-> NoThreshold, result |-> FALSE,
                called |-> FALSE]

\* the thresholds a caller passes, in percent; NoThreshold when it passes
\* none
Thresholds == {NoThreshold, 5, 15}

\* the frames a caller passes
Candidates == {[width |-> r.width, height |-> r.height, cells |-> s] :
                  r \in Regions, s \in Screens}

DetectFrame == <<audio_vars, ghost_vars, bus_vars, overlay_vars, orch_vars,
                 start_vars, state_vars, bridge_vars>>
DetectCapFrame == <<frames, current_frame_number, current_screen,
                    screen_changed, cap_pc, q_screen_changed, g_reference,
                    g_cap, g_added, g_cleared, cap_time_vars>>

\* screen_capturer.py:32-40  ScreenCapturer.update_region
update_region(bounds) ==
    /\ region' = bounds
    /\ UNCHANGED <<last_frame, detected>>
    /\ UNCHANGED <<DetectCapFrame, DetectFrame>>

\* screen_capturer.py:42-82  a call of capture_frame on its own
CaptureFrame(content, ok) ==
    /\ region # NoRegion
    /\ last_frame' = IF ok THEN capture_frame(content, ok) ELSE last_frame
    /\ UNCHANGED <<region, detected>>
    /\ UNCHANGED <<DetectCapFrame, DetectFrame>>

\* screen_capturer.py:122-169  a call of detect_significant_change
Detect(current_frame, threshold) ==
    /\ detected' = [current_frame |-> current_frame, last |-> last_frame,
                    threshold |-> threshold,
                    result |-> detect_significant_change(
                                   current_frame, last_frame, threshold),
                    called |-> TRUE]
    /\ UNCHANGED <<region, last_frame>>
    /\ UNCHANGED <<DetectCapFrame, DetectFrame>>

(***************************************************************************)
(* Specifications.                                                         *)
(***************************************************************************)
\* a chunk arrives from the capture thread (audio_capture.py:75-96,
\* orchestrator.py:330-333)
DeliverChunk(S, maxbuf) ==
    \E chunk \in S :
        /\ is_speech(chunk) => Len(audio_buffer) < maxbuf
        /\ silence_counter <= silence_threshold
        /\ process_audio_chunk(chunk)
        /\ UNCHANGED bridge_vars

TranscribeStep(R) ==
    \E i \in 1..Len(tasks) : \E response \in R : TranscribeReturns(i, response)

CallbackStep ==
    \E i \in 1..Len(tasks) : \E raised \in BOOLEAN : CallbackReturns(i, raised)

SynthStep ==
    \/ synthesize_and_play
    \/ \E has_audio \in BOOLEAN : TtsReturns(has_audio)
    \/ \E raised \in BOOLEAN : InjectReturns(raised)
    \/ SleepReturns

\* the segmenter under every kind of chunk
SegResponses ==
    {APIError, Response(T_go), Response(T_padded), Response(T_single),
     Response(T_blank), Response(T_music), Response(T_dots)}

SegNext ==
    \/ DeliverChunk(Chunks, MaxBuf)
    \/ TranscribeStep(SegResponses)
    \/ CallbackStep
    \/ set_transcription_callback
    \/ clear_buffer
    \/ SynthStep

\* state_manager.py:32-33 after orchestrator.py:89; no call is under way
\* on the state manager, the bridge or the capturer
SideInit(in_meeting) ==
    /\ is_in_meeting = in_meeting
    /\ screen_share_active = FALSE
    /\ StateIdle
    /\ BridgeIdle
    /\ detected = NoDetection

Init == AudioInit(FALSE) /\ CaptureOff /\ BusInit /\ OverlayInit
            /\ SessionStarted /\ SideInit(TRUE)

SegSpec == Init /\ [][SegNext]_vars

\* the acceptance of transcripts over time
SpeechChunk == [bytes |-> 640, voiced |-> TRUE, data |-> 1]
SilentChunk == [bytes |-> 640, voiced |-> FALSE, data |-> 1]

DedupResponses == {APIError, Response(T_go), Response(T_no)}

DedupNext ==
    \/ DeliverChunk({SpeechChunk, SilentChunk}, 1)
    \/ TranscribeStep(DedupResponses)
    \/ CallbackStep
    \/ Tick

\* the callbacks are set before the capture starts (orchestrator.py:262-269)
DedupInit == AudioInit(TRUE) /\ CaptureOff /\ BusInit /\ OverlayInit
            /\ SessionStarted /\ SideInit(TRUE)

DedupSpec == DedupInit /\ [][DedupNext]_vars

\* the capture pipeline
CapNext ==
    \/ \E bounds \in Regions : StartScreenCapture(bounds)
    \/ \E content \in Screens : \E ok \in BOOLEAN : CaptureAttempt(content, ok)
    \/ CaptureWake
    \/ HandleScreenChange
    \/ Tick

CapSpec == Init /\ [][CapNext]_vars

\* the frame buffer under direct calls
BufInputs ==
    {[data |-> [width |-> 1280, height |-> 720, cells |-> Pattern(0, Black)],
      changed |-> TRUE],
     [data |-> [width |-> 1280, height |-> 720, cells |-> Pattern(3, White)],
      changed |-> FALSE]}

BufNext ==
    \/ \E in \in BufInputs : AddFrame(in.data, in.changed)
    \/ \E n \in 0..MaxAdds : MarkFrameProcessed(n)
    \/ ClearBuffer

BufSpec == Init /\ [][BufNext]_vars

\* the event bus under direct calls
BusNext ==
    \/ \E t \in EventTypes : Publish(t)
    \/ \E ts \in TypeLists : Subscribe(ts)
    \/ \E ts \in TypeLists : \E q \in DOMAIN queues : Unsubscribe(ts, q)
    \/ \E q \in DOMAIN queues : QueueGet(q)

BusSpec == Init /\ [][BusNext]_vars

\* the overlay with its sweep
OverlayNext ==
    \/ \E duration \in Durations : AddAnnotation(duration)
    \/ ClearAll
    \/ Sweep
    \/ Tick

OverlaySpec == Init /\ [][OverlayNext]_vars

\* the session within one capture interval: utterances, the handlers, the
\* first turn of the capture loop and stop()
OrchScreens == {Pattern(0, Black), Pattern(3, White)}

OrchNext ==
    \/ OnTranscription
    \/ UserSpeechTake
    \/ \E outcome \in AnalyzeOutcomes : AnalyzeReturns(outcome)
    \/ AiResponseTake
    \/ AiSynthReturns
    \/ \E has_audio \in BOOLEAN : TtsReturns(has_audio)
    \/ \E raised \in BOOLEAN : InjectReturns(raised)
    \/ SleepReturns
    \/ \E bounds \in Regions : StartScreenCapture(bounds)
    \/ \E content \in OrchScreens : CaptureAttempt(content, TRUE)
    \/ HandleScreenChange
    \/ StopTasks
    \/ StopAudioAndSweep
    \/ StopOverlayAndCall
    \/ StopReturns

OrchSpec == Init /\ [][OrchNext]_vars

\* every call a handler awaits returns, and a handler whose queue holds an
\* event is resumed
FairOrchSpec ==
    /\ OrchSpec
    /\ WF_vars(UserSpeechTake)
    /\ WF_vars(\E outcome \in AnalyzeOutcomes : AnalyzeReturns(outcome))
    /\ WF_vars(AiResponseTake)
    /\ WF_vars(AiSynthReturns)
    /\ WF_vars(\E has_audio \in BOOLEAN : TtsReturns(has_audio))
    /\ WF_vars(\E raised \in BOOLEAN : InjectReturns(raised))
    /\ WF_vars(SleepReturns)

TypeOK ==
    /\ is_listening \in BOOLEAN
    /\ silence_counter \in 0..silence_threshold
    /\ _processing_buffer \in BOOLEAN
    /\ _is_speaking \in BOOLEAN
    /\ synth_pc \in {"idle", "tts", "inject", "sleep"}
    /\ now \in 0..MaxTime


\* the segmenter, with every started collaborator call returning
FairSegSpec ==
    /\ SegSpec
    /\ WF_vars(TranscribeStep(SegResponses))
    /\ WF_vars(CallbackStep)

\* Orchestrator.start from a fresh Orchestrator, and the stop() it or its
\* caller runs
StartNext ==
    \/ StartCalled
    \/ \E success \in BOOLEAN : JoinReturns(success)
    \/ \E found, darwin, audio_ok \in BOOLEAN : \E bounds \in Regions :
          ShareAttempt(found, bounds, darwin, audio_ok)
    \/ \E overlay, audio_ok \in BOOLEAN : QtReady(overlay, audio_ok)
    \/ HandlerFirstRun
    \/ \E changed \in BOOLEAN : CaptureLoopRuns(changed)
    \/ AudioThreadSchedules
    \/ \E utterance \in BOOLEAN : ChunkRuns(utterance)
    \/ StopTasks
    \/ StopAudioAndSweep
    \/ StopOverlayAndCall
    \/ StopReturns

StartInit == AudioInit(FALSE) /\ CaptureOff /\ BusInit /\ Constructed
                /\ SideInit(FALSE)

StartSpec == StartInit /\ [][StartNext]_vars

\* tasks calling the methods of the StateManager
StateNext ==
    \/ \E c \in Callers : \E method \in MethodsOf(c) :
          \E screen \in OrchScreens : \E in_meeting, screen_share \in BOOLEAN :
             StateCall(c, method,
                       [width |-> 1280, height |-> 720, cells |-> screen],
                       in_meeting, screen_share)
    \/ \E c \in Callers : StateAcquire(c)
    \/ \E c \in Callers : StateStep(c)
    \/ \E c \in Callers : StateRelease(c)

StateSpec == Init /\ [][StateNext]_vars

\* the audio thread and the event loop on either side of the bridge
BridgeNext ==
    \/ \E in_data \in BridgeChunks : _audio_callback(in_data)
    \/ _process_chunk
    \/ stop_capture

BridgeSpec == Init /\ [][BridgeNext]_vars

\* direct calls on a ScreenCapturer
DetectNext ==
    \/ \E bounds \in Regions : update_region(bounds)
    \/ \E content \in Screens : \E ok \in BOOLEAN : CaptureFrame(content, ok)
    \/ \E current_frame \in Candidates : \E threshold \in Thresholds :
          Detect(current_frame, threshold)

DetectSpec == Init /\ [][DetectNext]_vars

(***************************************************************************)
(* Properties of the audio segmenter.                                      *)
(***************************************************************************)
InFlight == Len(tasks)

\* a step in which process_audio_chunk started a flush
FlushStarted == Len(tasks') = Len(tasks) + 1

\* a step in which the one flush in flight took its decision
DecisionStep ==
    /\ Len(tasks) = 1
    /\ tasks[1].pc = "transcribe"
    /\ (tasks' = <<>> \/ tasks'[1].pc # "transcribe")

\* C1: at most one flush is in flight at any instant, and the guard flag
\* is set for as long as it is.
C1_OneFlushInFlight ==
    /\ InFlight <= 1
    /\ InFlight = 1 => _processing_buffer

\* a speech chunk arrived while a flush was in flight, and there is still
\* one flush only
C1_Witness == InFlight = 1 /\ g_last = "busy_speech"

\* C2: a flush starts exactly on the chunk that makes the run of silence
\* chunks classified since the last speech chunk equal to the threshold;
\* the counter is that run, and a speech chunk resets it to 0.
C2_FlushIffThreshold ==
    [][/\ FlushStarted <=> g_due'
       /\ silence_counter' = g_run'
       /\ g_last' = "speech" => silence_counter' = 0]_vars

\* the flush has just started on the chunk that completed the run
C2_Witness == g_due /\ InFlight = 1 /\ silence_counter = 0

C4_DiscardedWhileSpeaking ==
    /\ [](_is_speaking <=> synth_pc # "idle")
    /\ [][g_last' \in {"muted_speech", "muted_silence"}
             => UNCHANGED <<audio_buffer, silence_counter, is_listening,
                            tasks, _processing_buffer>>]_vars

\* a speech chunk was discarded in the middle of an utterance
C4_Witness ==
    /\ g_last = "muted_speech"
    /\ is_listening
    /\ silence_counter > 0

\* C5: the payload handed to transcription holds the speech chunks
\* classified since the previous flush or clear, in arrival order, and
\* nothing else; with a threshold of 7, the flush starts on the 7th silent
\* chunk and an 8th starts no other.
C5_PayloadIsHeardSpeech ==
    [][g_due' =>
          /\ FlushStarted
          /\ silence_threshold = 7
          /\ LET payload == tasks'[Len(tasks')].wav_data
             IN  /\ payload.frames = [k \in 1..Len(g_heard) |-> g_heard[k].data]
                 /\ payload.nframes * 2 = 640 * Len(g_heard)
                 /\ \A k \in 1..Len(g_heard) : is_speech(g_heard[k])]_vars

\* three speech chunks went into the payload in their order of arrival,
\* and a further silent chunk has arrived since
C5_Witness ==
    /\ InFlight = 1
    /\ tasks[1].wav_data.frames = <<1, 2, 1>>
    /\ g_last = "busy_silence"

\* C6 as stated: a valid text that was accepted at t and arrives again at
\* t' is discarded if t' - t < cooldown and accepted if t' - t >= cooldown,
\* whatever was accepted in between.
C6_CooldownPerText ==
    [][(DecisionStep /\ flush_result'.outcome # "invalid") =>
          LET text == flush_result'.text
              t    == g_accepted_at[text]
              at   == flush_result'.time
          IN  t # Never =>
                  /\ at - t < _cooldown_period
                        => flush_result'.outcome = "duplicate"
                  /\ at - t >= _cooldown_period
                        => flush_result'.outcome = "accepted"]_vars

\* C6 amended: a valid text equal to the last accepted one, arriving with
\* a flush started at t' when that one's flush started at t, is discarded
\* without any utterance published if t' - t < cooldown, and accepted again
\* if t' - t >= cooldown.
C6_CooldownOfLastAccepted ==
    [][(/\ DecisionStep
        /\ flush_result'.outcome # "invalid"
        /\ flush_result'.text = g_latest.text) =>
          LET elapsed == flush_result'.time - g_latest.time
          IN  /\ elapsed < _cooldown_period
                    => /\ flush_result'.outcome = "duplicate"
                       /\ tasks' = <<>>
                       /\ ~flush_result'.published
              /\ elapsed >= _cooldown_period
                    => /\ flush_result'.outcome = "accepted"
                       /\ tasks' # <<>>
                       /\ tasks'[1].pc = "callback"]_vars

\* the last accepted text came back half a second before the end of its
\* cooldown and was discarded
C6_Witness ==
    /\ flush_result.outcome = "duplicate"
    /\ flush_result.text = g_latest.text
    /\ flush_result.time - g_latest.time = _cooldown_period - 1
    /\ ~flush_result.published

\* C7: a suppressed duplicate leaves the last accepted text and time as
\* they were; a text accepted at t is suppressed at t + 1.5 s and accepted
\* at t + 3.5 s.
C7_SuppressedKeepsWindow ==
    /\ [][(DecisionStep /\ flush_result'.outcome = "duplicate")
             => UNCHANGED <<_last_transcription,
                            _last_transcription_time>>]_vars
    /\ [](g_scenario # "broken")

\* accepted, suppressed 1.5 s later, accepted 3.5 s later
C7_Witness ==
    /\ g_scenario = "renewed"
    /\ flush_result.outcome = "accepted"
    /\ _last_transcription_time = 7

\* the claim's rejection set: empty, holding an artifact marker, or shorter
\* than two characters
Rejected(text) ==
    \/ text = <<>>
    \/ \E k \in 1..Len(artifacts) : Contains(Lower(artifacts[k]), Lower(text))
    \/ Len(text) < 2

\* C8: when transcription fails or returns a rejected text, the flush ends
\* with no utterance published and the last accepted text and time
\* unchanged.
C8_RejectedIsDropped ==
    [][(DecisionStep /\ (~flush_result'.ok \/ Rejected(flush_result'.text)))
          => /\ flush_result'.outcome = "invalid"
             /\ tasks' = <<>>
             /\ ~_processing_buffer'
             /\ ~flush_result'.published
             /\ UNCHANGED <<_last_transcription,
                            _last_transcription_time>>]_vars

\* transcription failed after an earlier utterance had been accepted
C8_Witness ==
    /\ flush_result.outcome = "invalid"
    /\ ~flush_result.ok
    /\ _last_transcription = T_go
    /\ tasks = <<>>

\* C9: every flush that starts eventually leaves Flushing.
C9_FlushEnds == _processing_buffer ~> ~_processing_buffer

\* the utterance callback raised and the flush is over
C9_Witness ==
    /\ flush_result.raised
    /\ tasks = <<>>
    /\ ~_processing_buffer


(***************************************************************************)
(* Properties of the capture pipeline.                                     *)
(***************************************************************************)
\* C10: a candidate frame of the dimensions of the previously accepted
\* frame is published and buffered if the fraction of its pixels differing
\* from that frame by more than the delta is above the threshold, and is
\* neither published nor buffered otherwise.
C10_ChangeGated ==
    g_cap.comparable =>
        /\ g_cap.above => (g_cap.published /\ g_cap.buffered)
        /\ ~g_cap.above => (~g_cap.published /\ ~g_cap.buffered)

(***************************************************************************)
(* Properties of the frame buffer.                                         *)
(***************************************************************************)
\* the frames added since the last clear_buffer
AddedSinceClear == Len(g_added) - g_cleared

\* how many of them a buffer of max_size frames keeps
Kept ==
    IF AddedSinceClear < max_context_frames THEN AddedSinceClear
    ELSE max_context_frames

\* C11: the frame buffer holds at most max_size frames; they are the most
\* recently added frames (since the last clear_buffer) in insertion order,
\* the oldest having been evicted first; the sequence numbers given out are
\* strictly increasing and never reused, also after clear_buffer.
C11_BufferHoldsLatest ==
    /\ Len(frames) <= max_context_frames
    /\ Len(frames) = Kept
    /\ \A i \in 1..Len(frames) :
         LET a == g_added[Len(g_added) - Len(frames) + i]
         IN  /\ frames[i].data = a.data
             /\ frames[i].changed = a.changed
             /\ frames[i].frame_number = a.frame_number
    /\ \A i, j \in 1..Len(g_added) :
         i < j => g_added[i].frame_number < g_added[j].frame_number

\* a full buffer has lost its oldest frame, after a clear_buffer earlier on
C11_Witness ==
    /\ Len(frames) = max_context_frames
    /\ AddedSinceClear > max_context_frames
    /\ g_cleared > 0
    /\ \E i \in 1..Len(frames) : frames[i].processed

(***************************************************************************)
(* Pace of the capture loop.                                               *)
(***************************************************************************)
\* C12: between the start of a capture attempt and the start of the next
\* one at least 1/fps elapses, whether the frame was accepted, judged
\* unchanged or failed to capture: the loop never starts more attempts per
\* second than the configured fps.
C12_AttemptsPaced == g_gap # Never => g_gap >= frame_interval

\* a second attempt has been made, after a failed and after an accepted one
C12_Witness ==
    /\ g_gap # Never
    /\ g_gap = frame_interval
    /\ current_frame_number > 0
    /\ ~g_cap.published

(***************************************************************************)
(* Properties of the event bus.                                            *)
(***************************************************************************)
\* the events of a queue are in publish order: data never decreases
InPublishOrder(queue) ==
    \A i, j \in 1..Len(queue) : i < j => queue[i].data <= queue[j].data

\* C13: for each subscriber queue, the events it holds are in the order of
\* the publish calls that carried them, whatever their types, and every
\* event still waiting was published no earlier than the event the consumer
\* took last; this holds for every interleaving of publish, subscribe,
\* unsubscribe and get.
C13_QueueInPublishOrder ==
    \A q \in DOMAIN queues :
        /\ InPublishOrder(queues[q])
        /\ \A i \in 1..Len(queues[q]) :
              /\ g_last_taken[q] <= queues[q][i].data
              /\ g_published[queues[q][i].data] = queues[q][i].type

\* a queue registered for both types holds a later event of one type behind
\* an earlier event of the other, after its consumer has taken one
C13_Witness ==
    \E q \in DOMAIN queues :
        /\ Len(queues[q]) >= 2
        /\ queues[q][1].type # queues[q][2].type
        /\ queues[q][1].data < queues[q][2].data
        /\ g_last_taken[q] > 0

\* the last step was a publish call
PublishStep == g_published' # g_published

\* the event carried by that call
PublishedEvent ==
    [type |-> g_published'[Len(g_published')], data |-> Len(g_published')]

\* the queue has grown by copies of the event and by nothing else
Received(q, event) ==
    /\ Len(queues'[q]) > Len(queues[q])
    /\ SubSeq(queues'[q], 1, Len(queues[q])) = queues[q]
    /\ \A i \in (Len(queues[q]) + 1)..Len(queues'[q]) : queues'[q][i] = event

\* the queues in the bus's list for the type
Listed(event_type) ==
    IF event_type \in DOMAIN _subscribers
    THEN Range(_subscribers[event_type]) ELSE {}

C15_UnsubscribedGetsNothing ==
    [][PublishStep =>
          \A q \in DOMAIN queues :
              <<q, PublishedEvent.type>> \notin g_registered
                  => queues'[q] = queues[q]]_vars

\* C16: get_event_count() equals the number of publish calls made so far.
C16_CountsPublishCalls == get_event_count = publish_calls

(***************************************************************************)
(* Properties of the overlay.                                              *)
(***************************************************************************)
Present(ann) == ann \in Range(annotations)
Fresh(ann) == now - ann.created_at < ann.duration

\* C17 as stated: at every instant an annotation that was added (and not
\* cleared) is present if and only if now - created_at < duration.
C17_PresentIffFresh ==
    \A ann \in g_shown : Present(ann) <=> Fresh(ann)

\* the last step was a sweep
SweepStep == sweep_wake_at' # sweep_wake_at

\* C17 amended: an annotation that was added and not cleared is present as
\* long as now - created_at < duration; nothing else is present; and a sweep
\* leaves no annotation whose age has reached its duration, so such an
\* annotation is present at most until the next sweep.
C17_PresentUntilSwept ==
    /\ [](\A ann \in g_shown : Fresh(ann) => Present(ann))
    /\ [](\A i \in 1..Len(annotations) : annotations[i] \in g_shown)
    /\ [][SweepStep => \A i \in 1..Len(annotations') :
                           now - annotations'[i].created_at
                               < annotations'[i].duration]_vars

\* a sweep has removed one annotation and kept a younger one, and the kept
\* one has since reached its duration and is still drawn
C17_Witness ==
    /\ \E ann \in g_shown : ~Present(ann)
    /\ \E ann \in g_shown : Present(ann) /\ ~Fresh(ann)

(***************************************************************************)
(* Properties of the session.                                              *)
(***************************************************************************)
\* utterance k was published while the session was running
PublishedRunning(k) == Len(g_utter) >= k /\ g_utter[k].running

\* utterance k went to inference with the latest frame and the context, got
\* exactly one reply, and the reply went to synthesis
Answered(k) ==
    /\ Len(g_utter) >= k
    /\ g_utter[k].inferred
    /\ g_utter[k].latest
    /\ g_utter[k].in_context
    /\ g_utter[k].replies = 1
    /\ g_utter[k].synthesized

\* C18 as stated: every utterance event published while the session is
\* running is eventually answered: inference with the latest frame and the
\* context, exactly one 'ai_response', and synthesis of that reply.
C18_UtteranceAnswered ==
    \A k \in 1..MaxUtterances : PublishedRunning(k) ~> Answered(k)

\* utterance k was taken when the session state held no frame, and was
\* dropped without inference or reply
Dropped(k) ==
    /\ Len(g_utter) >= k
    /\ g_utter[k].taken
    /\ ~g_utter[k].had_frame
    /\ ~g_utter[k].inferred
    /\ g_utter[k].replies = 0

\* C18 amended: every utterance event published while the session is
\* running is, unless the session is stopped, eventually taken by the
\* handler; it is answered if the session state holds a frame at that
\* moment and dropped without a reply if it holds none.  No utterance ever
\* gets more than one reply, and only an utterance that went to inference
\* with the latest frame gets one.
C18_UtteranceAnsweredIfFrame ==
    /\ \A k \in 1..MaxUtterances :
          PublishedRunning(k) ~> (~_running \/ Answered(k) \/ Dropped(k))
    /\ [](\A k \in 1..Len(g_utter) :
             /\ g_utter[k].replies <= 1
             /\ g_utter[k].replies = 1 =>
                   (g_utter[k].inferred /\ g_utter[k].had_frame
                        /\ g_utter[k].latest /\ g_utter[k].in_context)
             /\ g_utter[k].synthesized => g_utter[k].replies = 1
             /\ g_utter[k].inferred => g_utter[k].had_frame)

\* in a running session the first utterance was dropped for want of a
\* frame and the second has been answered
C18_Witness ==
    /\ _running
    /\ Dropped(1)
    /\ Answered(2)
    /\ g_utter[2].running

\* C19: after stop() has returned none of the loops the session started is
\* still running or waiting for an event: not the capture loop, not one of
\* the three handlers, not the cleanup sweep.
C19_AllLoopsStopped ==
    stop_pc = "returned" =>
        /\ cap_pc \in {"off", "cancelled", "done"}
        /\ h_user_pc = "done"
        /\ h_ai_pc = "done"
        /\ h_screen_pc = "done"
        /\ _cleanup_task = None

\* where stop() stopped or released this, 0 when it has not
ReleasedAt(name) ==
    IF \E i \in 1..Len(g_released) : g_released[i] = name
    THEN CHOOSE i \in 1..Len(g_released) : g_released[i] = name
    ELSE 0

Before(a, b) == ReleasedAt(a) > 0 /\ ReleasedAt(a) < ReleasedAt(b)

\* C20: stop() stops the cleanup sweep before it stops the capture loop and
\* the audio capture, and cleans up the call session only after both.
C20_ReleaseOrder ==
    /\ ReleasedAt("capture_loop") > 0
          => Before("annotation_sweep", "capture_loop")
    /\ ReleasedAt("audio_capture") > 0
          => Before("annotation_sweep", "audio_capture")
    /\ ReleasedAt("call_session") > 0
          => /\ Before("audio_capture", "call_session")
             /\ CaptureTaskExists => Before("capture_loop", "call_session")

\* the step in which analyze_frame returns to the utterance handler
AnalyzeStep == h_user_pc = "analyze" /\ h_user_pc' # "analyze"

\* the event put last on the queue of the reply handler by this step
LastReply == q_ai_response'[Len(q_ai_response')]

\* C26: when the inference fails, what analyze_frame returns is a fallback
\* reply with no annotations; the handler publishes it as one 'ai_response'
\* event, clears the processing flag and comes round its loop for the next
\* utterance.
C26_FailurePublishesFallback ==
    [][(AnalyzeStep /\ g_utter'[UtteranceOf(h_user_job.query)].failed) =>
          /\ Len(q_ai_response') = Len(q_ai_response) + 1
          /\ LastReply.type = "ai_response"
          /\ LastReply.data.text \in FallbackTexts
          /\ LastReply.data.annotations = <<>>
          /\ processing_query' = FALSE
          /\ h_user_pc' = (IF _running THEN "get" ELSE "done")]_vars

\* the inference for the first utterance failed, and the second utterance
\* has since been taken and sent to inference
C26_Witness ==
    /\ Len(g_utter) = 2
    /\ g_utter[1].failed
    /\ g_utter[1].replies = 1
    /\ g_utter[2].inferred
    /\ ~processing_query

\* C27: when the synthesis fails its audio is empty and nothing is injected
\* into the call: the audio-generated callback is not invoked, and
\* synthesize_and_play ends through its sleep and returns to the reply
\* handler, never through an exception.
C27_FailedSynthesisNotInjected ==
    /\ [](g_synth.audio = EmptyAudio =>
             ~g_synth.injected /\ synth_pc # "inject")
    /\ [][(g_synth.audio = EmptyAudio /\ synth_pc # "idle"
              /\ synth_pc' = "idle") =>
             (synth_pc = "sleep" /\ h_ai_pc' = "synth")]_vars

\* a synthesis failed, synthesize_and_play has returned and the reply
\* handler waits for the next reply
C27_Witness ==
    /\ g_synth.audio = EmptyAudio
    /\ synth_pc = "idle"
    /\ ~_is_speaking
    /\ h_ai_pc = "get"
    /\ Len(g_utter) >= 1
    /\ g_utter[1].synthesized

\* one turn of the capture loop
AttemptStep == cap_pc = "capture" /\ cap_pc' = "sleep"

\* C28: the reference frame of the change detection, last_frame, is replaced
\* only by a frame accepted as changed; a capture attempt whose frame is
\* judged unchanged, or that yields no frame, leaves last_frame as it was.
C28_ReferenceKeptUnlessAccepted ==
    [][(AttemptStep /\ ~g_cap'.published) => last_frame' = last_frame]_vars


(***************************************************************************)
(* Properties of Orchestrator.start.                                       *)
(***************************************************************************)
\* nothing start() would have started is running
NothingStarted ==
    /\ ~_running
    /\ cap_pc = "off"
    /\ audio_capture = None
    /\ h_user_pc = "none" /\ h_ai_pc = "none" /\ h_screen_pc = "none"

\* C21: when join_meeting returns False, start() never reaches its normal
\* return; it runs stop(), which releases the call session, no capture
\* loop and no audio capture is ever started, _running stays False, and
\* start() ends by raising to its caller.
C21_JoinFailureAbortsStartup ==
    /\ [](g_start.join =>
            /\ start_pc \in {"failed", "raised"}
            /\ NothingStarted
            /\ start_pc = "raised" =>
                  /\ stop_pc = "returned"
                  /\ meet_controller = "cleaned"
                  /\ "call_session" \in Range(g_released))
    /\ [][(g_start'.join /\ ~g_start.join) => start_pc' = "failed"]_vars

\* the join was refused, stop() has run and start() has raised
C21_Witness ==
    /\ g_start.join
    /\ start_pc = "raised"
    /\ stop_pc = "returned"

\* C22 as stated: when the audio device cannot be opened, start() does not
\* return normally and the session does not reach the running state.
C22_AudioFailureAbortsStartup ==
    g_start.audio_device => (start_pc # "returned" /\ ~_running)

\* C23 as stated: when no shared screen is found within max_attempts
\* turns, start() does not return normally and the session does not reach
\* the running state.
C23_NoShareAbortsStartup ==
    g_start.screen_share => (start_pc # "returned" /\ ~_running)


(***************************************************************************)
(* Properties of the StateManager.                                         *)
(***************************************************************************)
\* C24: what a read returns is what the most recently completed write left
\* in the fields, all of it from that one write: current_screen and
\* screen_changed belong together, and so do is_in_meeting and
\* screen_share_active; the fields a finished write left are the fields
\* whenever nobody holds the lock.
C24_ReadsSeeLastCompletedWrite ==
    /\ g_read.seen = g_read.committed
    /\ ~_lock => Fields = g_committed
    /\ Cardinality({c \in Callers :
                       st_call[c].pc \in {"first", "second", "release"}})
          = IF _lock THEN 1 ELSE 0

\* a summary was read after both writers had completed a write, while a
\* writer was waiting for the lock
C24_Witness ==
    /\ g_read.method = "get_state_summary"
    /\ g_read.seen.has_screen
    /\ g_read.seen.screen_changed
    /\ g_read.seen.screen_share_active
    /\ ~g_read.seen.in_meeting
    /\ \E c \in Callers : st_call[c].pc = "acquire"


(***************************************************************************)
(* Properties of the bridge from the audio thread to the event loop.       *)
(***************************************************************************)
\* the state of the segmenter, which only process_audio_chunk and the
\* flush it starts may touch
segmenter_vars == <<is_listening, audio_buffer, silence_counter,
                    _processing_buffer, tasks, g_last, g_heard, g_run, g_due>>

IsPrefix(s, t) == Len(s) <= Len(t) /\ s = SubSeq(t, 1, Len(s))

\* C25: the audio callback can always run to its end, whatever the event
\* loop is doing; a step of the callback changes nothing of the segmenter
\* and only adds the chunk at the tail of the loop's run queue; the chunks
\* process_audio_chunk has begun are, in the same order, the first of the
\* chunks the callback handed over, and the others wait in the run queue.
C25_ChunksCrossTheBridgeInOrder ==
    /\ [](g_produced < MaxChunks =>
            \A in_data \in BridgeChunks : ENABLED _audio_callback(in_data))
    /\ [](/\ IsPrefix(g_begun, g_handed)
          /\ g_handed = g_begun \o [i \in 1..Len(run_queue) |->
                                       run_queue[i].n])
    /\ [][g_produced' # g_produced =>
             /\ UNCHANGED segmenter_vars
             /\ UNCHANGED g_begun
             /\ audio_capture = "capturing" =>
                   /\ Len(run_queue') = Len(run_queue) + 1
                   /\ run_queue'[Len(run_queue')].n = g_produced']_vars
    /\ [][segmenter_vars' # segmenter_vars =>
             /\ run_queue # <<>>
             /\ g_begun' = Append(g_begun, Head(run_queue).n)]_vars

\* two chunks were handed over before the loop ran: the first has begun,
\* the second waits, and a third one was given to the callback as well
C25_Witness ==
    /\ Len(g_handed) >= 2
    /\ Len(g_begun) = 1
    /\ Len(run_queue) >= 1
    /\ audio_buffer # <<>>
    /\ g_produced >= 3


(***************************************************************************)
(* Further properties of the capturer and of the audio segmenter.          *)
(***************************************************************************)
\* C29: with no reference frame the answer is True; with a reference frame
\* of other dimensions it is True; otherwise it is True exactly when the
\* changed pixels are more than the threshold's share of all pixels, and a
\* share equal to the threshold is no change.
C29_ChangeIsStrictlyAboveThreshold ==
    detected.called =>
       LET candidate == detected.current_frame
           reference == detected.last
           percent   == threshold_or_config(detected.threshold)
           changed   == changed_pixels(candidate, reference)
           total     == total_pixels(candidate)
       IN  /\ reference = NoFrame => detected.result
           /\ (reference # NoFrame /\ ~SameShape(candidate, reference))
                 => detected.result
           /\ (reference # NoFrame /\ SameShape(candidate, reference))
                 => /\ detected.result <=> changed * 100 > percent * total
                    /\ changed * 100 = percent * total => ~detected.result

\* a candidate differing from the reference in exactly the threshold's
\* share of its pixels was judged unchanged
C29_Witness ==
    /\ detected.called
    /\ detected.last # NoFrame
    /\ SameShape(detected.current_frame, detected.last)
    /\ detected.threshold = NoThreshold
    /\ changed_pixels(detected.current_frame, detected.last) * 100
          = change_threshold_percent * total_pixels(detected.current_frame)
    /\ ~detected.result

\* C30: in the step in which a flush hands its payload to transcription the
\* buffer it was made from becomes empty, silence_counter 0 and
\* is_listening False; the payload is the buffer as it was before the
\* step, and no later step changes the payload of a flush in flight.
C30_SnapshotBeforeTranscription ==
    /\ [][FlushStarted =>
             /\ audio_buffer # <<>>
             /\ audio_buffer' = <<>>
             /\ silence_counter' = 0
             /\ ~is_listening'
             /\ tasks'[Len(tasks')].pc = "transcribe"
             /\ tasks'[Len(tasks')].wav_data = _chunks_to_wav(audio_buffer)]_vars
    /\ [][(tasks # <<>> /\ tasks' # <<>> /\ ~FlushStarted) =>
             tasks'[1].wav_data = tasks[1].wav_data]_vars

\* a speech chunk arrived while the transcription of two chunks was under
\* way: the payload is those two chunks and the buffer is still empty
C30_Witness ==
    /\ InFlight = 1
    /\ tasks[1].pc = "transcribe"
    /\ tasks[1].wav_data.frames = <<2, 1>>
    /\ g_last = "busy_speech"
    /\ audio_buffer = <<>>
    /\ silence_counter = 0
    /\ ~is_listening


(***************************************************************************)
(* Properties of the configured audio format and of the segmenter's state. *)
(***************************************************************************)
\* the microphone buffer the stream is opened with (audio_capture.py:58-63):
\* chunk_size frames of 16-bit samples on every channel
ConfiguredBytes == chunk_size * 2 * channels

\* C32 as stated: a voiced chunk of the configured size that arrives while
\* the segmenter is not suppressed is classified as speech and leaves the
\* segmenter listening.
C32_ConfiguredChunkIsClassified ==
    [][\A chunk \in Chunks :
          (/\ process_audio_chunk(chunk)
           /\ chunk.bytes = ConfiguredBytes
           /\ chunk.voiced
           /\ ~chunk_skipped)
          => (g_last' = "speech" /\ is_listening')]_vars

\* C33: the accumulation buffer is non-empty exactly when is_listening is
\* set, silence_counter is above 0 only while is_listening is set, and
\* between two chunks silence_counter is below the threshold.
C33_BufferCounterListening ==
    /\ audio_buffer # <<>> <=> is_listening
    /\ silence_counter > 0 => is_listening
    /\ silence_threshold >= 1 => silence_counter < silence_threshold

\* the segmenter is listening, one silent chunk short of the threshold
C33_Witness ==
    /\ is_listening
    /\ audio_buffer # <<>>
    /\ silence_counter = silence_threshold - 1
    /\ silence_counter > 0

\* C34: the threshold is the largest whole number of chunks that fit in
\* silence_duration seconds of samples, 7 with the configured values, and
\* a flush starts on the silent chunk that makes the run that long.
C34_ThresholdRoundedDown ==
    /\ [](/\ silence_threshold * chunk_size * 10
              <= silence_duration_tenths * sample_rate
          /\ (silence_threshold + 1) * chunk_size * 10
              > silence_duration_tenths * sample_rate
          /\ (sample_rate = 16000 /\ chunk_size = 1024
                 /\ silence_duration_tenths = 5) => silence_threshold = 7)
    /\ [][FlushStarted => silence_counter + 1 = silence_threshold]_vars

\* the seventh silent chunk in a row has just started a flush, the six
\* before it did not
C34_Witness ==
    /\ g_due
    /\ g_last = "silence"
    /\ InFlight = 1
    /\ silence_duration_tenths * sample_rate = 80000
    /\ chunk_size = 1024
    /\ Len(tasks[1].wav_data.frames) = 1


(***************************************************************************)
(* Further properties of the session.                                      *)
(***************************************************************************)
\* the utterances whose inference has started and has not replied yet
Pending == {n \in 1..Len(g_utter) :
               g_utter[n].inferred /\ g_utter[n].replies = 0}

\* C35: at most one inference is pending; an inference starts only when
\* none is pending, so an utterance published meanwhile waits in the queue
\* until the reply to the pending one has been published; processing_query
\* is set exactly while the inference is pending, and so is not set
\* whenever the handler waits for its next event.
C35_OneInferencePending ==
    /\ [](/\ Cardinality(Pending) <= 1
          /\ processing_query <=> h_user_pc = "analyze"
          /\ h_user_pc = "analyze" <=> Pending # {}
          /\ h_user_pc = "get" => ~processing_query)
    /\ [][Pending' \ Pending # {} =>
             /\ Pending = {}
             /\ ~processing_query
             /\ h_user_pc = "get"]_vars

\* a second utterance waits in the queue while the inference for the first
\* is pending
C35_Witness ==
    /\ Pending = {1}
    /\ processing_query
    /\ Len(q_user_spoke) = 1
    /\ Head(q_user_spoke).data = UtteranceText(2)


\* C38: _is_speaking is set only while a synthesize_and_play call is under
\* way, and every call ends with it cleared, whether the audio was played,
\* was empty, or the injection raised: whenever it is set it is eventually
\* cleared.
C38_SpeakingEnds ==
    /\ [](_is_speaking => synth_pc # "idle")
    /\ (_is_speaking ~> ~_is_speaking)

\* the reply to the second utterance was synthesized and injected, and the
\* call has ended with _is_speaking cleared
C38_Witness ==
    /\ Len(g_utter) = 2
    /\ g_utter[2].synthesized
    /\ g_synth.injected
    /\ synth_pc = "idle"
    /\ ~_is_speaking


\* C37: once stop_capture() has returned, no chunk is scheduled onto the
\* event loop and no chunk scheduled earlier begins to be processed: the
\* chunks scheduled and the chunks begun stay as they were.
C37_NothingAfterStopCapture ==
    [][audio_capture = "stopped"
          => (g_handed' = g_handed /\ g_begun' = g_begun)]_vars


\* C40: the wait for a shared screen ends.  get_screen_share_bounds is
\* polled at most max_attempts times, one poll per turn and only while the
\* wait lasts; the wait ends at the first poll that finds a region, which
\* becomes the region of the session, and otherwise at poll max_attempts,
\* with no region.
C40_WaitForShareIsBounded ==
    /\ [](/\ attempt <= max_attempts
          /\ start_pc = "wait_share" => (attempt < max_attempts /\ region = NoRegion)
          /\ g_start.screen_share <=> (attempt = max_attempts /\ region = NoRegion
                                       /\ start_pc \notin {"none", "join", "wait_share"}))
    /\ [][/\ attempt' # attempt
             => (start_pc = "wait_share" /\ attempt' = attempt + 1)
          /\ (start_pc = "wait_share" /\ start_pc' # "wait_share")
             => /\ attempt' = attempt + 1
                /\ region' # NoRegion \/ attempt' = max_attempts
          /\ (start_pc = "wait_share" /\ region' # NoRegion)
             => start_pc' # "wait_share"]_vars

\* the wait gave up after max_attempts polls without a region
C40_Witness ==
    /\ attempt = max_attempts
    /\ region = NoRegion
    /\ start_pc \in {"qt_wait", "returned"}

\* the share was found at a poll before the last one
C40_FoundEarly ==
    /\ attempt = 3
    /\ region # NoRegion
    /\ start_pc = "returned"


\* C36: get_active_count() is the number of annotations the renderer
\* holds: after any sequence of add_annotation, sweeps and clear_all the
\* manager's active_annotations is exactly the renderer's annotations.
C36_ManagerListIsRenderersList ==
    /\ active_annotations = annotations
    /\ get_active_count = Len(annotations)


\* C39: when opening or starting the microphone stream has failed,
\* _start_microphone_capture has released what it had acquired: no stream
\* and no PyAudio instance is held, both references are None, and
\* is_capturing is False.
C39_FailedStartReleasesDevice ==
    audio_capture = "failed" => (audio = None /\ stream = None)


(***************************************************************************)
(* Properties of the first run of the handler tasks.                       *)
(***************************************************************************)
\* publish call k found a queue subscribed for its type
HadSubscriber(k) ==
    \E q \in DOMAIN queues :
       /\ <<q, g_published[k]>> \in g_asked
       /\ g_created_at[q] < k

HandlerPcs == <<h_user_pc, h_ai_pc, h_screen_pc>>

====
